---------------------------- MODULE Spec2Model ----------------------------
(***************************************************************************)
(* Model of the wootrico bridge: the credit ledger and the mapping cache   *)
(* (utils/messageCache.js, shipped in the nats/natsClient.js file), the    *)
(* payload extractors and the two queue processors                         *)
(* (services/webhookConsumer.js) and the helpdesk client's message posting *)
(* (services/chatwoot.js).                                                 *)
(*                                                                         *)
(* JavaScript strings are sequences of tokens: a token is one digit, "+",  *)
(* or one of the suffixes the code tests for ("@lid", "@s.whatsapp.net",   *)
(* "@g.us", "-group").  null is the one-token sequence <<"null">>; the     *)
(* empty string is <<>>.  Helpdesk and conversation ids are numbers (0 is  *)
(* the absent id); String(n) turns them into the string keys the cache     *)
(* stores.                                                                 *)
(***************************************************************************)
EXTENDS Integers, Sequences, FiniteSets, TLC

(***************************************************************************)
(* Bounds of the model.                                                    *)
(***************************************************************************)
MaxOrigins == 2

MaxFaults == 1

MaxChain == 4

MaxCredits == 2

MaxIds == 2

(***************************************************************************)
(* Strings.                                                                *)
(***************************************************************************)
null == <<"null">>

Digits == {"0","1","2","3","4","5","6","7","8","9"}

Truthy(s) == s # null /\ s # <<>>

Or(a, b) == IF Truthy(a) THEN a ELSE b

StartsWith(s, p) == Len(s) >= Len(p) /\ SubSeq(s, 1, Len(p)) = p

EndsWith(s, tok) == s # null /\ Len(s) > 0 /\ s[Len(s)] = tok

DigitsOnly(s) == SelectSeq(s, LAMBDA c : c \in Digits)

RECURSIVE Replace(_, _)
Replace(s, tok) ==
    IF s = <<>> THEN <<>>
    ELSE IF Head(s) = tok THEN Tail(s)
    ELSE <<Head(s)>> \o Replace(Tail(s), tok)

String(n) == <<ToString(n)>>

StringOrNull(n) == IF n # 0 THEN String(n) ELSE null

(***************************************************************************)
(* utils/phone.js                                                          *)
(***************************************************************************)
COUNTRY_CODES ==
    "BR" :> <<"5","5">> @@ "US" :> <<"1">> @@ "CA" :> <<"1">> @@ "MX" :> <<"5","2">> @@
    "AR" :> <<"5","4">> @@ "CL" :> <<"5","6">> @@ "CO" :> <<"5","7">> @@ "PE" :> <<"5","1">> @@
    "VE" :> <<"5","8">> @@ "UY" :> <<"5","9","8">> @@ "PY" :> <<"5","9","5">> @@ "BO" :> <<"5","9","1">> @@
    "EC" :> <<"5","9","3">> @@ "GY" :> <<"5","9","2">> @@ "SR" :> <<"5","9","7">> @@ "PT" :> <<"3","5","1">> @@
    "ES" :> <<"3","4">> @@ "FR" :> <<"3","3">> @@ "DE" :> <<"4","9">> @@ "IT" :> <<"3","9">> @@
    "GB" :> <<"4","4">> @@ "AU" :> <<"6","1">> @@ "NZ" :> <<"6","4">> @@ "JP" :> <<"8","1">> @@
    "CN" :> <<"8","6">> @@ "IN" :> <<"9","1">> @@ "RU" :> <<"7">> @@ "ZA" :> <<"2","7">> @@
    "EG" :> <<"2","0">> @@ "NG" :> <<"2","3","4">> @@ "KE" :> <<"2","5","4">> @@ "MA" :> <<"2","1","2">> @@
    "DZ" :> <<"2","1","3">> @@ "TN" :> <<"2","1","6">> @@ "LY" :> <<"2","1","8">> @@ "SD" :> <<"2","4","9">> @@
    "ET" :> <<"2","5","1">> @@ "SO" :> <<"2","5","2">> @@ "DJ" :> <<"2","5","3">> @@ "SS" :> <<"2","1","1">> @@
    "CF" :> <<"2","3","6">> @@ "CM" :> <<"2","3","7">> @@ "TD" :> <<"2","3","5">> @@ "GA" :> <<"2","4","1">> @@
    "CG" :> <<"2","4","2">> @@ "CD" :> <<"2","4","3">> @@ "AO" :> <<"2","4","4">> @@ "GW" :> <<"2","4","5">> @@
    "IO" :> <<"2","4","6">> @@ "AC" :> <<"2","4","7">> @@ "SC" :> <<"2","4","8">> @@ "ST" :> <<"2","5","0">> @@
    "GQ" :> <<"2","4","0">> @@ "GM" :> <<"2","2","0">> @@ "GN" :> <<"2","2","4">> @@ "SL" :> <<"2","3","2">> @@
    "LR" :> <<"2","3","1">> @@ "CI" :> <<"2","2","5">> @@ "GH" :> <<"2","3","3">> @@ "TG" :> <<"2","2","8">> @@
    "BJ" :> <<"2","2","9">> @@ "BF" :> <<"2","2","6">> @@ "ML" :> <<"2","2","3">> @@ "NE" :> <<"2","2","7">> @@
    "SN" :> <<"2","2","1">> @@ "MR" :> <<"2","2","2">> @@ "CV" :> <<"2","3","8">>

isValidE164(phone) ==
    /\ phone # null
    /\ Len(phone) >= 3 /\ Len(phone) <= 16
    /\ phone[1] = "+"
    /\ phone[2] \in Digits \ {"0"}
    /\ \A i \in 3..Len(phone) : phone[i] \in Digits

normalizeToE164(phone, defaultCountry) ==
    IF ~Truthy(phone) THEN null
    ELSE LET cleanPhone == DigitsOnly(phone) IN
         IF StartsWith(phone, <<"+">>) THEN phone
         ELSE IF StartsWith(cleanPhone, <<"0","0">>)
              THEN <<"+">> \o SubSeq(cleanPhone, 3, Len(cleanPhone))
         ELSE IF \E c \in DOMAIN COUNTRY_CODES : StartsWith(cleanPhone, COUNTRY_CODES[c])
              THEN <<"+">> \o cleanPhone
         ELSE IF defaultCountry \in DOMAIN COUNTRY_CODES
              THEN <<"+">> \o COUNTRY_CODES[defaultCountry] \o cleanPhone
         ELSE <<"+">> \o cleanPhone

(***************************************************************************)
(* The credit ledger: two maps phone -> { messageType -> count }.          *)
(***************************************************************************)
MESSAGE_TYPES == {"text", "image", "audio", "video", "document"}

EmptyMap == [x \in {} |-> 0]

TicketCount(tickets, phone, messageType) ==
    IF phone \in DOMAIN tickets /\ messageType \in DOMAIN tickets[phone]
    THEN tickets[phone][messageType] ELSE 0

(* addOutgoingTicket that records nothing. *)
addOutgoingTicket_Forgets(tickets, phone, messageType) == tickets

addOutgoingTicket(tickets, phone, messageType) ==
    LET phoneTickets == IF phone \in DOMAIN tickets THEN tickets[phone] ELSE EmptyMap
        count == IF messageType \in DOMAIN phoneTickets THEN phoneTickets[messageType] ELSE 0
        updated == [t \in DOMAIN phoneTickets \cup {messageType} |->
                       IF t = messageType THEN count + 1 ELSE phoneTickets[t]]
    IN [p \in DOMAIN tickets \cup {phone} |-> IF p = phone THEN updated ELSE tickets[p]]

(* consumeOutgoingTicket without its two guards: it decrements whatever    *)
(* it finds, an absent counter included.                                   *)
consumeOutgoingTicket_NoGuard(tickets, phone, messageType) ==
    LET phoneTickets == IF phone \in DOMAIN tickets THEN tickets[phone] ELSE EmptyMap
        updated == [t \in DOMAIN phoneTickets \cup {messageType} |->
                       IF t = messageType THEN TicketCount(tickets, phone, messageType) - 1
                       ELSE phoneTickets[t]]
    IN [ret |-> TRUE,
        map |-> [p \in DOMAIN tickets \cup {phone} |-> IF p = phone THEN updated ELSE tickets[p]]]

(* consumeOutgoingTicket that answers true for a positive counter but      *)
(* leaves it as it is.                                                     *)
consumeOutgoingTicket_NoDecrement(tickets, phone, messageType) ==
    [ret |-> TicketCount(tickets, phone, messageType) > 0, map |-> tickets]

consumeOutgoingTicket(tickets, phone, messageType) ==
    IF phone \notin DOMAIN tickets THEN [ret |-> FALSE, map |-> tickets]
    ELSE LET phoneTickets == tickets[phone]
             currentTickets == TicketCount(tickets, phone, messageType)
         IN IF currentTickets > 0
            THEN LET updated == [phoneTickets EXCEPT ![messageType] = currentTickets - 1]
                     hasAnyTickets == \E t \in DOMAIN updated : updated[t] > 0
                 IN [ret |-> TRUE,
                     map |-> IF hasAnyTickets
                             THEN [tickets EXCEPT ![phone] = updated]
                             ELSE [p \in DOMAIN tickets \ {phone} |-> tickets[p]]]
            ELSE [ret |-> FALSE, map |-> tickets]

(* addOutgoingTicketChatwoot that leaves the credit for later. *)
addOutgoingTicketChatwoot_Late(tickets, phone, messageType) == tickets

addOutgoingTicketChatwoot(tickets, phone, messageType) ==
    LET phoneTickets == IF phone \in DOMAIN tickets THEN tickets[phone] ELSE EmptyMap
        count == IF messageType \in DOMAIN phoneTickets THEN phoneTickets[messageType] ELSE 0
        updated == [t \in DOMAIN phoneTickets \cup {messageType} |->
                       IF t = messageType THEN count + 1 ELSE phoneTickets[t]]
    IN [p \in DOMAIN tickets \cup {phone} |-> IF p = phone THEN updated ELSE tickets[p]]

(* consumeOutgoingTicketChatwoot answering like consumeOutgoingTicket:     *)
(* true when it consumed a credit, false when there was none.              *)
consumeOutgoingTicketChatwoot_ReturnsConsumed(tickets, phone, messageType) ==
    LET r == consumeOutgoingTicket(tickets, phone, messageType)
    IN [ret |-> r.ret, map |-> r.map]

(* consumeOutgoingTicketChatwoot answering false, not true, when the       *)
(* recipient has no entry.                                                 *)
consumeOutgoingTicketChatwoot_AbsentFalse(tickets, phone, messageType) ==
    LET r == consumeOutgoingTicket(tickets, phone, messageType)
    IN [ret |-> (phone \in DOMAIN tickets) /\ ~r.ret, map |-> r.map]

consumeOutgoingTicketChatwoot(tickets, phone, messageType) ==
    IF phone \notin DOMAIN tickets THEN [ret |-> TRUE, map |-> tickets]
    ELSE LET phoneTickets == tickets[phone]
             currentTickets == TicketCount(tickets, phone, messageType)
         IN IF currentTickets > 0
            THEN LET updated == [phoneTickets EXCEPT ![messageType] = currentTickets - 1]
                     hasAnyTickets == \E t \in DOMAIN updated : updated[t] > 0
                 IN [ret |-> FALSE,
                     map |-> IF hasAnyTickets
                             THEN [tickets EXCEPT ![phone] = updated]
                             ELSE [p \in DOMAIN tickets \ {phone} |-> tickets[p]]]
            ELSE [ret |-> TRUE, map |-> tickets]

(***************************************************************************)
(* The mapping cache: a Map in insertion order, here a sequence of entries *)
(* with distinct keys.                                                     *)
(***************************************************************************)
KeyIndex(cache, key) ==
    IF \E i \in 1..Len(cache) : cache[i].key = key
    THEN CHOOSE i \in 1..Len(cache) : cache[i].key = key
    ELSE 0

storeMessageIdMapping(cache, chatwootMessageId, apiMessageId, conversationId, inboxId, provider, integrationId) ==
    LET entry == [key |-> String(chatwootMessageId),
                  apiMessageId |-> apiMessageId,
                  conversationId |-> StringOrNull(conversationId),
                  inboxId |-> StringOrNull(inboxId),
                  provider |-> provider,
                  integrationId |-> StringOrNull(integrationId)]
        i == KeyIndex(cache, entry.key)
    IN IF i = 0 THEN Append(cache, entry) ELSE [cache EXCEPT ![i] = entry]

getApiMessageId(cache, chatwootMessageId) ==
    LET i == KeyIndex(cache, String(chatwootMessageId))
    IN IF i = 0 THEN null ELSE Or(cache[i].apiMessageId, null)

FirstIndexOfApiId(cache, apiMessageId) ==
    IF \E i \in 1..Len(cache) : cache[i].apiMessageId = apiMessageId
    THEN CHOOSE i \in 1..Len(cache) :
             /\ cache[i].apiMessageId = apiMessageId
             /\ \A j \in 1..(i - 1) : cache[j].apiMessageId # apiMessageId
    ELSE 0

getChatwootMessageId(cache, apiMessageId) ==
    LET i == FirstIndexOfApiId(cache, apiMessageId)
    IN IF i = 0 THEN null ELSE cache[i].key

removeMessageIdMapping(cache, chatwootMessageId) ==
    SelectSeq(cache, LAMBDA e : e.key # String(chatwootMessageId))

(* A lookup that finds nothing answers null; the callers read the answer  *)
(* with ?. so null is the entry whose fields are all null.                 *)
NoEntry ==
    [key |-> null, apiMessageId |-> null, conversationId |-> null, inboxId |-> null,
     provider |-> "", integrationId |-> null]

getMessageMappingByChatwootId(cache, chatwootMessageId) ==
    LET i == KeyIndex(cache, String(chatwootMessageId))
    IN IF i = 0 THEN NoEntry ELSE cache[i]

NoMapping == [chatwootMessageId |-> null, conversationId |-> null, inboxId |-> null]

getChatwootMessageMappingByApiId(cache, apiMessageId) ==
    LET i == FirstIndexOfApiId(cache, apiMessageId)
    IN IF i = 0 THEN NoMapping
       ELSE [chatwootMessageId |-> cache[i].key,
             conversationId |-> cache[i].conversationId,
             inboxId |-> cache[i].inboxId]

(***************************************************************************)
(* Provider payloads.  Each dialect has its own record shape; the media    *)
(* object a payload carries (image, audio, video, document or none) is the *)
(* field "media".                                                          *)
(***************************************************************************)
Has(body, f) == f \in DOMAIN body

detectPayloadOrigin(body) ==
    IF Has(body, "phone") /\ Truthy(body.phone) /\ Has(body, "momment") /\ body.momment > 0
    THEN "zapi"
    ELSE IF Has(body, "message") /\ body.message.content /\ Truthy(body.message.sender)
    THEN "uazapi"
    ELSE IF Has(body, "event") /\ Has(body, "type") /\ body.type = "Message"
    THEN "wuzapi"
    ELSE "unknown"

GrupoSemNome == <<"Grupo sem nome">>

(* A drop that forgets its reason tag.                                     *)
Ignored_Untagged(origin, groupName) ==
    [ignored |-> TRUE, reason |-> "", origin |-> origin,
     phone |-> null, lid |-> null, jid |-> null, text |-> <<>>, media |-> "none",
     isGroup |-> TRUE, fromMe |-> FALSE, fromApi |-> FALSE, messageId |-> null,
     replyId |-> null, groupName |-> groupName, editedMessageId |-> null, senderName |-> null]

Ignored(origin, groupName) ==
    [ignored |-> TRUE, reason |-> "group_disconsidered", origin |-> origin,
     phone |-> null, lid |-> null, jid |-> null, text |-> <<>>, media |-> "none",
     isGroup |-> TRUE, fromMe |-> FALSE, fromApi |-> FALSE, messageId |-> null,
     replyId |-> null, groupName |-> groupName, editedMessageId |-> null, senderName |-> null]

Extracted(origin, phone, lid, jid, text, media, isGroup, fromMe, fromApi, messageId, replyId, groupName, editedMessageId, senderName) ==
    [ignored |-> FALSE, reason |-> "", origin |-> origin,
     phone |-> phone, lid |-> lid, jid |-> jid, text |-> text, media |-> media,
     isGroup |-> isGroup, fromMe |-> fromMe, fromApi |-> fromApi, messageId |-> messageId,
     replyId |-> replyId, groupName |-> groupName, editedMessageId |-> editedMessageId,
     senderName |-> senderName]

extractZapiData(body, desconsiderarGrupo, defaultCountry) ==
    LET fromMe == body.fromMe
        fromApi == body.fromApi
        isGroup == body.isGroup
        messageId == Or(body.messageId, null)
        replyId == body.referenceMessageId
        editedMessageId == IF body.isEdit /\ Truthy(messageId) THEN messageId ELSE null
        newMessageId == IF body.isEdit /\ Truthy(body.editMessageId) THEN body.editMessageId ELSE messageId
        groupName == IF isGroup THEN Or(body.chatName, GrupoSemNome) ELSE null
        rawPhone == IF isGroup THEN Or(body.phone, groupName) ELSE body.phone
        phone == IF isGroup THEN rawPhone ELSE normalizeToE164(rawPhone, defaultCountry)
        finalMessageId == Or(newMessageId, messageId)
        senderName == IF isGroup /\ ~fromMe THEN body.senderName ELSE null
    IN IF isGroup /\ desconsiderarGrupo
       THEN Ignored("zapi", groupName)
       ELSE Extracted("zapi", phone, null, null, body.text, body.media, isGroup, fromMe, fromApi,
                      finalMessageId, replyId, groupName, editedMessageId, senderName)

UazapiMedia(mediaType) ==
    CASE mediaType = "image" -> "image"
      [] mediaType = "ptt" -> "audio"
      [] mediaType = "document" -> "document"
      [] mediaType = "video" -> "video"
      [] OTHER -> "none"

extractUazapiData(body, desconsiderarGrupo, defaultCountry) ==
    LET message == body.message
        fromMe == message.fromMe
        senderPhone == Or(Replace(message.sender, "@s.whatsapp.net"), Replace(message.chatid, "@s.whatsapp.net"))
        rawPhone0 == IF fromMe THEN Replace(message.chatid, "@s.whatsapp.net") ELSE senderPhone
        isGroup == message.isGroup
        groupName == Or(message.groupName, Or(body.chat.name, <<>>))
        messageId == Or(message.messageid, null)
        fromApi == message.wasSentByApi
        replyId == Or(message.stanzaID, null)
        editedMessageId == Or(message.edited, null)
        waChatId == Or(body.chat.wa_chatid, Or(message.chatid, null))
        rawPhone == IF isGroup THEN waChatId ELSE rawPhone0
        phone == IF isGroup THEN rawPhone ELSE normalizeToE164(rawPhone, defaultCountry)
        senderName == IF isGroup /\ ~fromMe THEN message.senderName ELSE null
    IN IF isGroup /\ desconsiderarGrupo
       THEN Ignored("uazapi", groupName)
       ELSE IF isGroup /\ ~Truthy(waChatId)
       THEN Extracted("uazapi", null, null, null, message.text, "none", isGroup, fromMe, fromApi,
                      messageId, null, groupName, null, null)
       ELSE Extracted("uazapi", phone, null, null, message.text, UazapiMedia(message.mediaType), isGroup, fromMe, fromApi,
                      messageId, replyId, groupName, editedMessageId, senderName)

extractWuzapiData(body, desconsiderarGrupo, defaultCountry) ==
    LET eventInfo == body.event.Info
        eventMessage == body.event.Message
        rawChatId == Or(eventInfo.Chat, <<>>)
        isLid == EndsWith(rawChatId, "@lid")
        isJid == ~isLid /\ EndsWith(rawChatId, "@s.whatsapp.net")
        lid0 == IF isLid THEN rawChatId ELSE null
        jid0 == IF isJid THEN rawChatId ELSE null
        phone0 == IF isLid THEN null
                  ELSE IF isJid THEN normalizeToE164(Replace(rawChatId, "@s.whatsapp.net"), defaultCountry)
                  ELSE rawChatId
        fromMe == eventInfo.IsFromMe
        isGroup == eventInfo.IsGroup
        messageId == Or(eventInfo.ID, null)
        groupName == IF isGroup
                     THEN Or(eventInfo.GroupName,
                             Or(eventInfo.ChatName,
                                Or(Replace(Replace(eventInfo.Chat, "@lid"), "@g.us"), GrupoSemNome)))
                     ELSE null
        phone == IF isGroup /\ ~Truthy(lid0) THEN groupName ELSE phone0
        lid == lid0
        jid == IF isGroup /\ ~Truthy(lid0) THEN null ELSE jid0
        senderName == IF isGroup /\ ~fromMe
                      THEN Or(eventInfo.PushName, Or(Replace(eventInfo.Sender, "@s.whatsapp.net"), null))
                      ELSE null
    IN IF isGroup /\ desconsiderarGrupo
       THEN Ignored("wuzapi", groupName)
       ELSE Extracted("wuzapi", phone, lid, jid, eventMessage.text, eventMessage.media, isGroup, fromMe, FALSE,
                      messageId, null, groupName, null, senderName)

extractMessageData(body, desconsiderarGrupo, defaultCountry) ==
    LET origin == detectPayloadOrigin(body) IN
    CASE origin = "zapi" -> extractZapiData(body, desconsiderarGrupo, defaultCountry)
      [] origin = "uazapi" -> extractUazapiData(body, desconsiderarGrupo, defaultCountry)
      [] origin = "wuzapi" -> extractWuzapiData(body, desconsiderarGrupo, defaultCountry)
      [] OTHER -> Extracted("unknown",
                            normalizeToE164(IF Has(body, "phone") THEN body.phone ELSE null, defaultCountry),
                            null, null,
                            IF Has(body, "text") THEN body.text ELSE <<>>,
                            IF Has(body, "media") THEN body.media ELSE "none",
                            TRUE,
                            IF Has(body, "fromMe") THEN body.fromMe ELSE FALSE,
                            FALSE, null, null, null, null, null)

(***************************************************************************)
(* Tenants (services/integrationManager.js).  One record per integration;  *)
(* inboxId is the string the helpdesk client adopted.                      *)
(***************************************************************************)
IndexOfFirst(seq, Test(_)) ==
    IF \E i \in 1..Len(seq) : Test(seq[i])
    THEN CHOOSE i \in 1..Len(seq) : Test(seq[i]) /\ \A j \in 1..(i - 1) : ~Test(seq[j])
    ELSE 0

findIntegrationByInboxId(ints, inboxId) ==
    IF inboxId = 0 THEN 0
    ELSE IndexOfFirst(ints, LAMBDA i : Truthy(i.inboxId) /\ i.inboxId = String(inboxId))

findIntegrationByWhatsAppIdentifier(ints, provider, identifier) ==
    IF ~Truthy(identifier) THEN 0
    ELSE IndexOfFirst(ints, LAMBDA i :
             /\ i.provider = provider
             /\ provider = "uazapi"
             /\ i.normalizedNumber = DigitsOnly(identifier))

CountProvider(ints, provider) == Cardinality({i \in 1..Len(ints) : ints[i].provider = provider})

(* A routing that settles for the first tenant of the dialect.             *)
findIntegrationForPayload_FirstOfDialect(ints, body, origin) ==
    IF Len(ints) = 1 THEN 1
    ELSE IndexOfFirst(ints, LAMBDA i : i.provider = origin)

findIntegrationForPayload(ints, body, origin) ==
    IF Len(ints) = 1 THEN 1
    ELSE IF origin = "uazapi"
    THEN LET owner == DigitsOnly(Or(body.owner,
                                    IF Has(body.message, "owner") THEN body.message.owner ELSE <<>>))
             chatId == DigitsOnly(Replace(Or(body.message.chatid, <<>>), "@s.whatsapp.net"))
         IN IF Truthy(owner)
            THEN findIntegrationByWhatsAppIdentifier(ints, "uazapi", owner)
            ELSE IF Truthy(chatId)
            THEN findIntegrationByWhatsAppIdentifier(ints, "uazapi", chatId)
            ELSE 0
    ELSE IF origin \in {"zapi", "wuzapi"}
    THEN IF CountProvider(ints, origin) = 1
         THEN IndexOfFirst(ints, LAMBDA i : i.provider = origin)
         ELSE 0
    ELSE 0

(***************************************************************************)
(* Helpdesk contacts (services/chatwoot.js).                               *)
(***************************************************************************)
NoContact == [identifier |-> null, phone_number |-> null]

findContactByPhone(contacts, phone, lid, jid) ==
    LET byId(v) == IndexOfFirst(contacts, LAMBDA c : c.identifier = v)
        byLid == IF Truthy(lid) THEN byId(lid) ELSE 0
        byJid == IF Truthy(jid) THEN byId(jid) ELSE 0
    IN IF byLid # 0 THEN byLid
       ELSE IF byJid # 0 THEN byJid
       ELSE IF Truthy(phone)
       THEN IF isValidE164(phone)
            THEN IndexOfFirst(contacts, LAMBDA c : c.phone_number = phone)
            ELSE byId(phone)
       ELSE 0

(* A creation that sends whatever it was given as the phone number.        *)
createContact_PhoneAlways(phone, lid, jid) ==
    [identifier |-> Or(lid, Or(jid, Or(phone, null))), phone_number |-> phone]

createContact(phone, lid, jid) ==
    LET identifier == Or(lid, Or(jid, Or(phone, null)))
    IN [identifier |-> identifier,
        phone_number |-> IF Truthy(phone) /\ isValidE164(phone) THEN phone ELSE null]

(* processIncomingMessage puts the writer's name before what a group       *)
(* member wrote.                                                           *)
SenderPrefix(senderName) == <<"**">> \o senderName \o <<":**">>

formattedContent(content, kind, isGroup, senderName) ==
    IF isGroup /\ Truthy(senderName)
    THEN IF Truthy(content) THEN SenderPrefix(senderName) \o <<"\n">> \o content
         ELSE IF kind = "audio" THEN SenderPrefix(senderName) \o <<"\n", "Audio recebido">>
         ELSE SenderPrefix(senderName)
    ELSE content

ContactArgs(data) ==
    IF data.isGroup /\ Truthy(data.groupName)
    THEN [phone |-> data.phone, lid |-> null, jid |-> null]
    ELSE [phone |-> data.phone, lid |-> data.lid, jid |-> data.jid]

(***************************************************************************)
(* Callback helpers (services/webhookConsumer.js, utils/messageCache.js).  *)
(***************************************************************************)
getMessageType(attachments) ==
    IF Len(attachments) > 0
    THEN CASE attachments[1] = "audio" -> "audio"
           [] attachments[1] = "image" -> "image"
           [] attachments[1] = "video" -> "video"
           [] attachments[1] = "file" -> "document"
           [] OTHER -> "text"
    ELSE "text"

ProcessedAttachments(attachments) ==
    LET conv(a) == IF a = "file" THEN "document" ELSE a
        known == SelectSeq(attachments, LAMBDA a : a \in {"audio", "image", "video", "file"})
    IN [i \in 1..Len(known) |-> conv(known[i])]

IsGroupIdentifier(identifier) ==
    ~EndsWith(identifier, "@lid") /\ ~EndsWith(identifier, "@s.whatsapp.net")
    /\ (EndsWith(identifier, "@g.us") \/ EndsWith(identifier, "-group"))

Recipient(contact) ==
    LET phone == Or(contact.phone_number, null)
        identifier == contact.identifier
        lid == IF EndsWith(identifier, "@lid") THEN identifier ELSE null
        jid == IF ~EndsWith(identifier, "@lid") /\ EndsWith(identifier, "@s.whatsapp.net")
               THEN identifier ELSE null
    IN IF IsGroupIdentifier(identifier) THEN identifier
       ELSE Or(phone, Or(lid, Or(jid, identifier)))

MediaType(data) == IF data.media \in {"image", "audio", "video", "document"} THEN data.media ELSE "text"

RECURSIVE AddTickets(_, _, _, _)
AddTickets(tickets, phone, messageType, n) ==
    IF n = 0 THEN tickets
    ELSE AddTickets(addOutgoingTicketChatwoot(tickets, phone, messageType), phone, messageType, n - 1)

(***************************************************************************)
(* Deletion helpers (processMessageDelete, WhatsAppService.deleteMessage). *)
(***************************************************************************)
(* findIntegrationByInboxId for an inbox id kept as a string, as the       *)
(* mapping cache keeps it.                                                 *)
findIntegrationByStoredInboxId(ints, inboxId) ==
    IF ~Truthy(inboxId) THEN 0
    ELSE IndexOfFirst(ints, LAMBDA i : Truthy(i.inboxId) /\ i.inboxId = inboxId)

(* IntegrationForDeletion that never asks the mapping entry.               *)
IntegrationForDeletion_InboxOnly(ints, cache, body) ==
    LET byInbox == findIntegrationByInboxId(ints, body.conversation.inbox_id)
    IN IF byInbox # 0 THEN byInbox ELSE 1

(* The tenant that deletes: by the callback's inbox id, else by the inbox  *)
(* id of the mapping entry, else the first one.                            *)
IntegrationForDeletion(ints, cache, body) ==
    LET byInbox == findIntegrationByInboxId(ints, body.conversation.inbox_id)
        mapping == getMessageMappingByChatwootId(cache, body.id)
        byMapping == findIntegrationByStoredInboxId(ints, mapping.inboxId)
    IN IF byInbox # 0 THEN byInbox
       ELSE IF byMapping # 0 THEN byMapping
       ELSE 1

recipientForDeletion(contact) ==
    LET identifier == Or(contact.identifier, Or(contact.phone_number, null))
        phoneNumber == Or(contact.phone_number, null)
        isGroup == EndsWith(identifier, "@g.us") \/ EndsWith(identifier, "-group")
    IN IF isGroup /\ Truthy(identifier) THEN identifier
       ELSE Or(phoneNumber, Or(identifier, null))

(* No request: the delete call threw before making one. *)
NoRequest == [api |-> "", messageId |-> null, phone |-> null]

(* deleteMessage whose Z-API request does not need a recipient.            *)
deleteMessage_AnyRecipient(provider, messageId, recipient) ==
    [api |-> provider, messageId |-> messageId,
     phone |-> IF provider = "zapi" THEN DigitsOnly(recipient) ELSE null]

(* The request deleteMessage makes: Z-API names the message and the phone  *)
(* (digits only, a group identifier as it is) and needs a recipient; the   *)
(* other two name the message alone.                                       *)
deleteMessage(provider, messageId, recipient) ==
    CASE provider = "zapi" ->
            IF ~Truthy(recipient) THEN NoRequest
            ELSE IF EndsWith(recipient, "@g.us") \/ EndsWith(recipient, "-group")
            THEN [api |-> "zapi", messageId |-> messageId, phone |-> recipient]
            ELSE IF DigitsOnly(recipient) = <<>> THEN NoRequest
            ELSE [api |-> "zapi", messageId |-> messageId, phone |-> DigitsOnly(recipient)]
      [] provider = "uazapi" -> [api |-> "uazapi", messageId |-> messageId, phone |-> null]
      [] provider = "wuzapi" -> [api |-> "wuzapi", messageId |-> messageId, phone |-> null]

(***************************************************************************)
(* Conversations of the helpdesk client.  A conversation is a record       *)
(* [contact, inbox, status] and its id is its position in the helpdesk's   *)
(* list; a listing returns the conversations of one status and inbox, the  *)
(* latest first, and the client takes the first one of the contact.  The   *)
(* 50-page limit of the searches is beyond the bounds used here.           *)
(***************************************************************************)
Conversation(contactId, inboxId, status) == [contact |-> contactId, inbox |-> inboxId, status |-> status]

LatestConversation(convs, contactId, inboxId, status) ==
    LET found == {i \in 1..Len(convs) : convs[i] = Conversation(contactId, inboxId, status)}
    IN IF found = {} THEN 0 ELSE CHOOSE i \in found : \A j \in found : j <= i

(* fail names the request of this upsert that fails: "" for none.          *)
findResolvedConversationByContact(convs, contactId, inboxId, fail) ==
    IF fail = "resolved" THEN 0 ELSE LatestConversation(convs, contactId, inboxId, "resolved")

reopenConversation(convs, conversationId) == [convs EXCEPT ![conversationId].status = "open"]

(* Every error of the search, a failed reopening included, is caught and   *)
(* answered with null (0).                                                 *)
findConversationByContact(convs, reabrirConversa, contactId, inboxId, fail) ==
    LET resolved == IF reabrirConversa
                    THEN findResolvedConversationByContact(convs, contactId, inboxId, fail)
                    ELSE 0
    IN IF resolved # 0
       THEN IF fail = "toggle"
            THEN [conv |-> 0, convs |-> convs]
            ELSE [conv |-> resolved, convs |-> reopenConversation(convs, resolved)]
       ELSE [conv |-> IF fail = "open" THEN 0 ELSE LatestConversation(convs, contactId, inboxId, "open"),
             convs |-> convs]

createConversation(convs, contactId, inboxId, conversationStatus) ==
    Append(convs, Conversation(contactId, inboxId, conversationStatus))

findOrCreateConversation(convs, int, contactId, fail) ==
    LET f == findConversationByContact(convs, int.reabrirConversa, contactId, int.inboxNumber, fail)
    IN IF f.conv # 0 THEN f
       ELSE [conv |-> Len(convs) + 1,
             convs |-> createConversation(convs, contactId, int.inboxNumber, int.conversationStatus)]

(* The requests the upsert issues when none of them fails, hence the ones  *)
(* that can fail.                                                          *)
LookupRequests(convs, int, contactId) ==
    LET resolved == LatestConversation(convs, contactId, int.inboxNumber, "resolved")
    IN IF int.reabrirConversa
       THEN IF resolved # 0 THEN {"resolved", "toggle"} ELSE {"resolved", "open"}
       ELSE {"open"}

(***************************************************************************)
(* State.                                                                  *)
(***************************************************************************)
VARIABLES
    integrations,            \* the loaded tenants
    messageTickets,          \* provider echo map
    messageTicketsChatwoot,  \* helpdesk echo map
    messageIdCache,          \* mapping cache
    qP,                      \* subject webhook.principal
    qC,                      \* subject webhook.callback
    pcP,                     \* position of processWebhookPrincipal
    pcC,                     \* position of processWebhookCallback
    resP,                    \* outcome of the last principal event
    resC,                    \* outcome of the last callback
    hdContacts,              \* helpdesk contacts, in creation order
    hdMessages,              \* helpdesk messages, in creation order
    provMessages,            \* provider messages, in creation order
    provDeletes,             \* delete requests made to the provider, in order
    originsLeft,             \* originating messages the environment may still produce
    faultsLeft,              \* failing responses the environment may still give
    lastOp,                  \* the last ledger or cache call and its result
    acks,                    \* messages pulled and acknowledgements given, per subject
    hdConversations,         \* helpdesk conversations, in creation order
    lookupFaults,            \* failing answers to conversation requests still to come
    hdInboxes,               \* helpdesk inboxes, in the order the helpdesk lists them
    dataFile                 \* per tenant, the inbox id in its data file (0: no file)

vars == <<integrations, messageTickets, messageTicketsChatwoot, messageIdCache, qP, qC,
          pcP, pcC, resP, resC, hdContacts, hdMessages, provMessages, provDeletes,
          originsLeft, faultsLeft, lastOp, acks, hdConversations, lookupFaults,
          hdInboxes, dataFile>>

(***************************************************************************)
(* The world around the bridge: the chats of the connected number, as each *)
(* dialect names them on the wire.                                         *)
(***************************************************************************)
Providers == {"zapi", "uazapi", "wuzapi"}

Chat(wire, isGroup, name) == [wire |-> wire, isGroup |-> isGroup, name |-> name]

ChatsOf(provider) ==
    CASE provider = "zapi" ->
            {Chat(<<"5","5","9">>, FALSE, <<"Ana">>), Chat(<<"3","-group">>, TRUE, <<"Team">>)}
      [] provider = "uazapi" ->
            {Chat(<<"5","5","9","@s.whatsapp.net">>, FALSE, <<"Ana">>), Chat(<<"3","@g.us">>, TRUE, <<"Team">>)}
      [] provider = "wuzapi" ->
            {Chat(<<"5","5","9","@s.whatsapp.net">>, FALSE, <<"Ana">>), Chat(<<"8","@lid">>, FALSE, <<"Bob">>),
             Chat(<<"3","@g.us">>, TRUE, <<>>), Chat(<<"7","@lid">>, TRUE, <<>>)}

MsgId(n) == <<"M", ToString(n)>>

TextOf(media) == IF media = "none" THEN <<"t">> ELSE <<>>

UazapiMediaType(media) == IF media = "audio" THEN "ptt" ELSE media

(* The name under which the writer of an event is known to the provider.   *)
Participant == <<"Ana">>

ProviderEvent(provider, chat, fromMe, viaApi, media, messageId, editOf, editNew) ==
    CASE provider = "zapi" ->
            [phone |-> chat.wire, momment |-> 1, fromMe |-> fromMe, fromApi |-> viaApi,
             isGroup |-> chat.isGroup, chatName |-> chat.name, senderName |-> Participant,
             text |-> TextOf(media),
             media |-> media,
             messageId |-> IF Truthy(editOf) THEN editOf ELSE messageId,
             isEdit |-> Truthy(editOf),
             editMessageId |-> IF Truthy(editOf) THEN editNew ELSE null,
             referenceMessageId |-> null]
      [] provider = "uazapi" ->
            [message |-> [content |-> TRUE, sender |-> chat.wire, chatid |-> chat.wire,
                          fromMe |-> fromMe, wasSentByApi |-> viaApi, isGroup |-> chat.isGroup,
                          groupName |-> IF chat.isGroup THEN chat.name ELSE <<>>,
                          senderName |-> Participant,
                          messageid |-> messageId, mediaType |-> UazapiMediaType(media),
                          edited |-> editOf, text |-> TextOf(media), stanzaID |-> null],
             chat |-> [wa_chatid |-> chat.wire, name |-> chat.name],
             owner |-> null]
      [] provider = "wuzapi" ->
            [type |-> "Message",
             event |-> [Info |-> [Chat |-> chat.wire, IsFromMe |-> fromMe, IsGroup |-> chat.isGroup,
                                  ID |-> messageId, GroupName |-> null, ChatName |-> null,
                                  PushName |-> Participant, Sender |-> <<"5","5","9","@s.whatsapp.net">>],
                        Message |-> [media |-> media, text |-> TextOf(media)]]]

ContactOfChat(int, chat) ==
    LET data == extractMessageData(ProviderEvent(int.provider, chat, FALSE, FALSE, "none", MsgId(0), null, null),
                                   int.desconsiderarGrupo, int.defaultCountry)
        args == ContactArgs(data)
    IN IF data.ignored THEN NoContact ELSE createContact(args.phone, args.lid, args.jid)

KnownContacts(int) ==
    {ContactOfChat(int, c) : c \in ChatsOf(int.provider)} \ {NoContact}

(* The recipient the callback computes for the contact of each chat, per   *)
(* dialect.                                                                *)
RecipientOfChat ==
    [p \in Providers |->
        [c \in ChatsOf(p) |->
            LET k == ContactOfChat([provider |-> p, desconsiderarGrupo |-> FALSE,
                                    defaultCountry |-> "BR"], c)
            IN IF k = NoContact THEN null ELSE Recipient(k)]]

ChatForRecipient(int, recipient) ==
    CHOOSE c \in ChatsOf(int.provider) : RecipientOfChat[int.provider][c] = recipient

CallbackBody(message) ==
    [event |-> "message_created", id |-> message.id, message_type |-> message.message_type,
     private |-> FALSE, deleted |-> FALSE,
     conversation |-> [id |-> message.conversation, inbox_id |-> message.inbox_id,
                       sender |-> message.contact],
     attachments |-> message.attachments, in_reply_to |-> message.in_reply_to,
     content |-> message.content]

DeleteBody(message) ==
    [CallbackBody(message) EXCEPT !.event = "message_updated", !.deleted = TRUE]

IdleP ==
    [state |-> "idle", int |-> 0, data |-> Ignored("", null), dir |-> "", messageType |-> "",
     rollback |-> FALSE, content |-> <<>>, kind |-> "", replyId |-> null, attempt |-> 0,
     phase |-> "", posted |-> 0, error |-> ""]

IdleC ==
    [state |-> "idle", int |-> 0, body |-> 0, conversation |-> 0, inbox_id |-> 0,
     recipient |-> null, messageType |-> "", parts |-> <<>>, sent |-> 0, firstId |-> null,
     content |-> <<>>]

(* What a handler run returned, and with it the number of helpdesk         *)
(* messages the run created and their direction.                           *)
Outcome(processed, reason, posted, dir) ==
    [processed |-> processed, reason |-> reason, posted |-> posted, dir |-> dir, raised |-> ""]

(* A handler run that threw: raised names the request whose error it is,   *)
(* the contact creation, a media POST or a text POST.                      *)
Thrown(posted, dir, raised) ==
    [processed |-> FALSE, reason |-> "error", posted |-> posted, dir |-> dir, raised |-> raised]

Result(processed, reason) == Outcome(processed, reason, 0, "")

(* The last call made on the ledger or the cache by the specifications     *)
(* that exercise them directly.                                            *)
Op(op, key, kind, id, ret) == [op |-> op, key |-> key, kind |-> kind, id |-> id, ret |-> ret]

NoOp == Op("", null, "", null, FALSE)

Integration(id, provider, desconsiderarGrupo, inboxId) ==
    [id |-> id, provider |-> provider, defaultCountry |-> "BR",
     desconsiderarGrupo |-> desconsiderarGrupo, inboxId |-> String(inboxId),
     inboxNumber |-> inboxId, accountId |-> 1, normalizedNumber |-> <<"5","5","1">>,
     reabrirConversa |-> TRUE, conversationStatus |-> "open"]

SeqOfSet(S) ==
    LET RECURSIVE Build(_)
        Build(T) == IF T = {} THEN <<>>
                    ELSE LET x == CHOOSE y \in T : TRUE IN <<x>> \o Build(T \ {x})
    IN Build(S)

Quiescent == qP = <<>> /\ qC = <<>> /\ pcP.state = "idle" /\ pcC.state = "idle"

(* The state after loadIntegrations has loaded the tenants ints: empty     *)
(* maps and subjects, idle consumers, the helpdesk knowing the contacts    *)
(* known, each with one open conversation.                                 *)
(* The inbox name a tenant is configured with.                             *)
inboxName(int) == <<"W", "o">> \o String(int.id)

InitBridge(ints, known, origins, faults, lookups) ==
    /\ integrations = ints
    /\ hdContacts = known
    /\ messageTickets = EmptyMap
    /\ messageTicketsChatwoot = EmptyMap
    /\ messageIdCache = <<>>
    /\ qP = <<>>
    /\ qC = <<>>
    /\ pcP = IdleP
    /\ pcC = IdleC
    /\ resP = Result(FALSE, "")
    /\ resC = Result(FALSE, "")
    /\ hdMessages = <<>>
    /\ provMessages = <<>>
    /\ provDeletes = <<>>
    /\ originsLeft = origins
    /\ faultsLeft = faults
    /\ lastOp = NoOp
    /\ acks = [pulledP |-> 0, ackedP |-> 0, pulledC |-> 0, ackedC |-> 0]
    /\ hdConversations = [i \in 1..Len(known) |->
                              Conversation(i, ints[1].inboxNumber, "open")]
    /\ lookupFaults = lookups

(* Every tenant has booted: its inbox exists under the configured name and *)
(* its data file holds the id.                                             *)
InitBase(ints, known, origins, faults, lookups) ==
    /\ InitBridge(ints, known, origins, faults, lookups)
    /\ hdInboxes = [i \in 1..Len(ints) |->
                        [id |-> ints[i].inboxNumber, name |-> inboxName(ints[i])]]
    /\ dataFile = [i \in 1..Len(ints) |-> ints[i].inboxNumber]

InitState(ints, origins, faults) ==
    InitBase(ints, SeqOfSet(KnownContacts(ints[1])), origins, faults, 0)

InitWorld(origins, faults, ignoreGroups) ==
    \E p \in Providers, g \in ignoreGroups :
        InitState(<<Integration(1, p, g, 7)>>, origins, faults)

(***************************************************************************)
(* Z-API notifications (services/webhookConsumer.js): events that carry a  *)
(* notification field are answered before routing and normalisation, a     *)
(* REVOKE by deleting the helpdesk message its messageId is mapped to.     *)
(***************************************************************************)
isZapiNotificationEvent(body) ==
    Has(body, "notification") /\ body.notification # "" /\ detectPayloadOrigin(body) = "zapi"

isZapiRevokeEvent(body) == isZapiNotificationEvent(body) /\ body.notification = "REVOKE"

(* What the helpdesk keeps of a message it deleted.                        *)
DeletedMessage(message) == [message EXCEPT !.content = <<"deleted">>, !.attachments = <<>>]

MessageOfKey(messages, key) ==
    IF \E m \in 1..Len(messages) : String(m) = key
    THEN CHOOSE m \in 1..Len(messages) : String(m) = key
    ELSE 0

(* ok is the helpdesk's answer to the DELETE, should it be requested.  The *)
(* notifications modelled carry no instance id, so the tenant is the one   *)
(* of the mapping's inbox, else the first Z-API tenant.                    *)
processZapiDeletedMessage(ints, cache, messages, body, ok) ==
    LET apiMessageId == body.messageId
        mapping == getChatwootMessageMappingByApiId(cache, apiMessageId)
        byInbox == findIntegrationByStoredInboxId(ints, mapping.inboxId)
        int == IF byInbox # 0 THEN byInbox ELSE IndexOfFirst(ints, LAMBDA i : i.provider = "zapi")
        m == MessageOfKey(messages, mapping.chatwootMessageId)
        quiet(reason, requested) ==
            [res |-> Result(FALSE, reason), cache |-> cache, messages |-> messages,
             callbacks |-> <<>>, requested |-> requested]
    IN IF ~Truthy(apiMessageId) THEN quiet("zapi_message_id_not_found", FALSE)
       ELSE IF ~Truthy(mapping.chatwootMessageId) THEN quiet("chatwoot_message_not_found", FALSE)
       ELSE IF ~Truthy(mapping.conversationId) THEN quiet("conversation_id_not_found", FALSE)
       ELSE IF int = 0 THEN quiet("error", FALSE)
       ELSE IF ~ok \/ m = 0 THEN quiet("error", TRUE)
       ELSE [res |-> Result(TRUE, "zapi_deleted"),
             cache |-> removeMessageIdMapping(cache, m),
             messages |-> [messages EXCEPT ![m] = DeletedMessage(messages[m])],
             callbacks |-> <<DeleteBody(messages[m])>>,
             requested |-> TRUE]

MaxDeleted == 2

(***************************************************************************)
(* UAZAPI updates: a deletion lists the ids of the messages deleted, every *)
(* other messages_update event is answered without a request.              *)
(***************************************************************************)
isUazapiMessagesUpdateEvent(body) ==
    \/ Has(body, "EventType") /\ body.EventType = "messages_update"
    \/ Has(body, "type") /\ body.type \in {"DeletedMessage", "ReadReceipt"}

isUazapiDeletedEvent(body) ==
    /\ \/ Has(body, "type") /\ body.type = "DeletedMessage"
       \/ Has(body, "Type") /\ body.Type = "DeletedMessage"
    /\ \/ Has(body, "event") /\ Has(body.event, "Type") /\ body.event.Type = "Deleted"
       \/ Has(body, "state") /\ body.state = "Deleted"

(* The loop of processUazapiDeletedMessage from the k-th id on; oks[k] is  *)
(* the helpdesk's answer to the DELETE for the k-th id, should it be       *)
(* requested.                                                              *)
RECURSIVE DeleteEach(_, _, _, _, _)
DeleteEach(k, ints, messageIds, oks, acc) ==
    IF k > Len(messageIds) THEN acc
    ELSE LET apiMessageId == messageIds[k]
             mapping == getChatwootMessageMappingByApiId(acc.cache, apiMessageId)
             byInbox == findIntegrationByStoredInboxId(ints, mapping.inboxId)
             int == IF byInbox # 0 THEN byInbox ELSE IF Len(ints) > 0 THEN 1 ELSE 0
             m == MessageOfKey(acc.messages, mapping.chatwootMessageId)
             result(deleted, reason, requested) ==
                 [acc EXCEPT !.results = Append(@, [apiMessageId |-> apiMessageId,
                                                     deleted |-> deleted, reason |-> reason]),
                             !.failed = @ + (IF requested /\ ~deleted THEN 1 ELSE 0)]
         IN IF ~Truthy(apiMessageId) THEN DeleteEach(k + 1, ints, messageIds, oks, acc)
            ELSE IF ~Truthy(mapping.chatwootMessageId)
            THEN DeleteEach(k + 1, ints, messageIds, oks,
                            result(FALSE, "chatwoot_message_not_found", FALSE))
            ELSE IF ~Truthy(mapping.conversationId)
            THEN DeleteEach(k + 1, ints, messageIds, oks,
                            result(FALSE, "conversation_id_not_found", FALSE))
            ELSE IF int = 0
            THEN DeleteEach(k + 1, ints, messageIds, oks, result(FALSE, "error", FALSE))
            ELSE IF ~oks[k] \/ m = 0
            THEN DeleteEach(k + 1, ints, messageIds, oks, result(FALSE, "error", TRUE))
            ELSE DeleteEach(k + 1, ints, messageIds, oks,
                            [result(TRUE, "", TRUE) EXCEPT
                                !.cache = removeMessageIdMapping(@, m),
                                !.messages = [@ EXCEPT ![m] = DeletedMessage(@)],
                                !.callbacks = Append(@, DeleteBody(acc.messages[m]))])

(* The same loop given up at the first id that is not deleted.             *)
RECURSIVE DeleteEach_UntilMiss(_, _, _, _, _)
DeleteEach_UntilMiss(k, ints, messageIds, oks, acc) ==
    IF k > Len(messageIds) THEN acc
    ELSE LET one == DeleteEach(k, ints, SubSeq(messageIds, 1, k), oks, acc)
         IN IF Len(one.results) > Len(acc.results) /\ ~one.results[Len(one.results)].deleted
            THEN one
            ELSE DeleteEach_UntilMiss(k + 1, ints, messageIds, oks, one)

NoneDeleted(cache, messages) ==
    [cache |-> cache, messages |-> messages, callbacks |-> <<>>, results |-> <<>>, failed |-> 0]

processUazapiDeletedMessage_StopsAtMiss(ints, cache, messages, body, oks) ==
    IF ~Has(body, "event") \/ ~Has(body.event, "MessageIDs") \/ Len(body.event.MessageIDs) = 0
    THEN [reason |-> "no_message_ids"] @@ NoneDeleted(cache, messages)
    ELSE DeleteEach_UntilMiss(1, ints, body.event.MessageIDs, oks, NoneDeleted(cache, messages))

(* The answer has a reason when the event lists no id, else results has one *)
(* entry per id; failed counts the DELETE requests that were not answered. *)
processUazapiDeletedMessage(ints, cache, messages, body, oks) ==
    IF ~Has(body, "event") \/ ~Has(body.event, "MessageIDs") \/ Len(body.event.MessageIDs) = 0
    THEN [reason |-> "no_message_ids"] @@ NoneDeleted(cache, messages)
    ELSE DeleteEach(1, ints, body.event.MessageIDs, oks, NoneDeleted(cache, messages))

(***************************************************************************)
(* processWebhookPrincipal.  PrincipalReceive is the handler up to its     *)
(* first request to the helpdesk; PrincipalPost is one message POST and    *)
(* what the handler does with its response.                                *)
(***************************************************************************)
(* A consumer loop that never acknowledges.                                *)
ackAfter_Never(res) == 0

(* A consumer loop that acknowledges only after a handler that returned.   *)
ackAfter_TryOnly(res) == IF res.reason \in {"error", "parse_error"} THEN 0 ELSE 1

(* The consumer loops: m.ack() follows the handler when it returned and,   *)
(* in the catch block, when the handler or JSON.parse threw.               *)
ackAfter(res) == IF res.reason \in {"error", "parse_error"} THEN 1 ELSE 1

EditMarker == <<"(*mensagem editada pelo usuario*)">>

(* A hand-over to the helpdesk client that loses the reply target.         *)
Posting_NoReply(int, data, dir, rollback, content, kind, replyId) ==
    [state |-> "post", int |-> int, data |-> data, dir |-> dir, messageType |-> MediaType(data),
     rollback |-> rollback, content |-> content, kind |-> kind, replyId |-> null,
     attempt |-> 1, phase |-> "first", posted |-> 0, error |-> ""]

(* A hand-over to the helpdesk client that never releases the credit.      *)
Posting_NoRollback(int, data, dir, rollback, content, kind, replyId) ==
    [state |-> "post", int |-> int, data |-> data, dir |-> dir, messageType |-> MediaType(data),
     rollback |-> FALSE, content |-> content, kind |-> kind, replyId |-> replyId,
     attempt |-> 1, phase |-> "first", posted |-> 0, error |-> ""]

Posting(int, data, dir, rollback, content, kind, replyId) ==
    [state |-> "post", int |-> int, data |-> data, dir |-> dir, messageType |-> MediaType(data),
     rollback |-> rollback, content |-> content, kind |-> kind, replyId |-> replyId,
     attempt |-> 1, phase |-> "first", posted |-> 0, error |-> ""]

PrincipalReceive ==
    /\ pcP.state = "idle"
    /\ qP # <<>>
    /\ qP' = Tail(qP)
    /\ LET body == Head(qP)
           origin == detectPayloadOrigin(body)
           i == findIntegrationForPayload(integrations, body, origin)
           int == integrations[i]
           data == extractMessageData(body, int.desconsiderarGrupo, int.defaultCountry)
           messageType == MediaType(data)
           consumed == consumeOutgoingTicketChatwoot(messageTicketsChatwoot, data.phone, messageType)
           chatwootMessageId == IF Truthy(data.replyId)
                                THEN getChatwootMessageId(messageIdCache, data.replyId) ELSE null
           editedReplyChatwootId ==
               IF Truthy(data.editedMessageId)
               THEN getChatwootMessageMappingByApiId(messageIdCache, data.editedMessageId).chatwootMessageId
               ELSE null
           replyChatwootId == Or(editedReplyChatwootId, chatwootMessageId)
       IN IF isUazapiDeletedEvent(body)
          THEN \E oks \in [1..MaxDeleted -> BOOLEAN] :
               LET r == processUazapiDeletedMessage(integrations, messageIdCache, hdMessages,
                                                    body, oks)
               IN /\ Cardinality({k \in 1..MaxDeleted : ~oks[k]}) = r.failed
                  /\ r.failed <= faultsLeft
                  /\ faultsLeft' = faultsLeft - r.failed
                  /\ resP' = IF Has(r, "reason")
                             THEN Result(FALSE, "no_message_ids")
                             ELSE [results |-> r.results] @@ Result(TRUE, "uazapi_deleted")
                  /\ messageIdCache' = r.cache
                  /\ hdMessages' = r.messages
                  /\ qC' = qC \o r.callbacks
                  /\ UNCHANGED <<pcP, messageTickets, messageTicketsChatwoot>>
          ELSE IF isUazapiMessagesUpdateEvent(body)
                  /\ (\/ Has(body, "type") /\ body.type = "DeletedMessage"
                      \/ Has(body, "EventType") /\ body.EventType = "messages_update")
          THEN /\ resP' = Result(FALSE, "uazapi_messages_update_non_deleted")
               /\ UNCHANGED <<pcP, messageTickets, messageTicketsChatwoot, messageIdCache, qC,
                              hdMessages, faultsLeft>>
          ELSE IF isZapiRevokeEvent(body)
          THEN \E ok \in BOOLEAN :
               LET r == processZapiDeletedMessage(integrations, messageIdCache, hdMessages, body, ok)
               IN /\ ~ok => r.requested /\ faultsLeft > 0
                  /\ faultsLeft' = IF ok THEN faultsLeft ELSE faultsLeft - 1
                  /\ resP' = r.res
                  /\ messageIdCache' = r.cache
                  /\ hdMessages' = r.messages
                  /\ qC' = qC \o r.callbacks
                  /\ UNCHANGED <<pcP, messageTickets, messageTicketsChatwoot>>
          ELSE /\ UNCHANGED <<messageIdCache, qC, hdMessages, faultsLeft>>
               /\ IF Has(body, "malformed")
                  THEN (* JSON.parse threw *)
                       /\ resP' = Result(FALSE, "parse_error")
                       /\ UNCHANGED <<pcP, messageTickets, messageTicketsChatwoot>>
                  ELSE IF isZapiNotificationEvent(body)
                  THEN /\ resP' = Result(FALSE, "zapi_notification_ignored")
                       /\ UNCHANGED <<pcP, messageTickets, messageTicketsChatwoot>>
                  ELSE IF i = 0
                  THEN /\ resP' = Result(FALSE, "integration_not_found")
                       /\ UNCHANGED <<pcP, messageTickets, messageTicketsChatwoot>>
                  ELSE IF data.ignored
                  THEN /\ resP' = Result(FALSE, data.reason)
                       /\ UNCHANGED <<pcP, messageTickets, messageTicketsChatwoot>>
                  ELSE IF ~Truthy(data.phone) /\ ~Truthy(data.lid) /\ ~Truthy(data.jid)
                          /\ ~Truthy(data.text) /\ data.media = "none"
                  THEN /\ resP' = Result(FALSE, "message_ignored_by_config")
                       /\ UNCHANGED <<pcP, messageTickets, messageTicketsChatwoot>>
                  ELSE IF data.fromMe /\ ~data.fromApi
                  THEN /\ messageTickets' = addOutgoingTicket(messageTickets, data.phone, messageType)
                       /\ pcP' = Posting(i, data, "outgoing", TRUE, data.text, messageType, null)
                       /\ UNCHANGED <<resP, messageTicketsChatwoot>>
                  ELSE IF data.fromMe /\ data.fromApi
                  THEN /\ messageTicketsChatwoot' = consumed.map
                       /\ IF consumed.ret
                          THEN /\ messageTickets' = addOutgoingTicket(messageTickets, data.phone, messageType)
                               /\ pcP' = Posting(i, data, "outgoing", TRUE, data.text, messageType, null)
                               /\ UNCHANGED resP
                          ELSE /\ resP' = Result(TRUE, "")
                               /\ UNCHANGED <<pcP, messageTickets>>
                  ELSE IF Truthy(data.editedMessageId) /\ Truthy(editedReplyChatwootId)
                  THEN /\ pcP' = Posting(i, data, "incoming", FALSE,
                                         IF Truthy(data.text) THEN data.text \o <<"\n">> \o EditMarker ELSE EditMarker,
                                         "text", editedReplyChatwootId)
                       /\ UNCHANGED <<resP, messageTickets, messageTicketsChatwoot>>
                  ELSE /\ pcP' = Posting(i, data, "incoming", FALSE, data.text, messageType, replyChatwootId)
                       /\ UNCHANGED <<resP, messageTickets, messageTicketsChatwoot>>
    /\ UNCHANGED <<integrations, pcC, resC, hdContacts, provMessages, originsLeft, lastOp>>
    /\ UNCHANGED <<provDeletes, hdConversations, lookupFaults>>
    /\ acks' = [acks EXCEPT !.pulledP = @ + 1,
                          !.ackedP = @ + (IF pcP'.state = "idle" THEN ackAfter(resP') ELSE 0)]
    /\ UNCHANGED <<hdInboxes, dataFile>>

(* The file_type the helpdesk records for an attachment of each kind. *)
FileType(kind) == IF kind = "document" THEN "file" ELSE kind

Responses == {"ok", "noid", "retry", "fatal"}

maxRetries == 3

(* What sendMessage / sendMessageWith* do after one POST answered resp:   *)
(* "return" the data, "throw", or POST again in the next phase.           *)
AfterPost(kind, phase, attempt, resp) ==
    IF phase = "fallback" \/ kind = "text"
    THEN IF resp \in {"ok", "noid"} THEN "return" ELSE "throw"
    ELSE IF kind = "image"
    THEN IF resp = "ok" THEN "return"
         ELSE IF attempt < maxRetries THEN "again" ELSE "fallback"
    ELSE IF resp \in {"ok", "noid"} THEN "return" ELSE "fallback"

(* The error a failed text POST leaves to the caller: sendMessageWithImage *)
(* rethrows the error of its last media attempt when its fallback fails,   *)
(* the other overloads let the error of the fallback through.              *)
Raised(kind, phase) == IF phase = "fallback" /\ kind = "image" THEN "media" ELSE "text"

PrincipalPost ==
    /\ pcP.state = "post"
    /\ Len(hdMessages) < MaxChain
    /\ LET int == integrations[pcP.int]
           data == pcP.data
           args == ContactArgs(data)
           found == findContactByPhone(hdContacts, args.phone, args.lid, args.jid)
           created == createContact(args.phone, args.lid, args.jid)
           contacts == IF found # 0 THEN hdContacts ELSE Append(hdContacts, created)
           contactId == IF found # 0 THEN found ELSE Len(hdContacts) + 1
           noIdentifier == found = 0 /\ ~Truthy(created.identifier)
           isMedia == pcP.phase # "fallback" /\ pcP.kind # "text"
           throw(n, raised) ==
                    /\ pcP' = IdleP
                    /\ resP' = Thrown(n, pcP.dir, raised)
                    /\ messageTickets' =
                          IF pcP.rollback
                          THEN consumeOutgoingTicket(messageTickets, data.phone, pcP.messageType).map
                          ELSE messageTickets
                    /\ UNCHANGED messageIdCache
       IN IF noIdentifier
          THEN /\ throw(0, "contact")
               /\ UNCHANGED <<hdContacts, hdMessages, qC, faultsLeft, hdConversations, lookupFaults>>
          ELSE \E resp \in Responses, fail \in {""} \cup LookupRequests(hdConversations, int, contactId) :
               /\ resp # "ok" => faultsLeft > 0
               /\ fail # "" => lookupFaults > 0
               /\ lookupFaults' = IF fail = "" THEN lookupFaults ELSE lookupFaults - 1
               /\ hdConversations' = findOrCreateConversation(hdConversations, int, contactId, fail).convs
               /\ faultsLeft' = IF resp = "ok" THEN faultsLeft ELSE faultsLeft - 1
               /\ hdContacts' = contacts
               /\ LET id == Len(hdMessages) + 1
                      conversation == findOrCreateConversation(hdConversations, int, contactId, fail).conv
                      message == [id |-> id, message_type |-> pcP.dir,
                                  attachments |-> IF isMedia THEN <<FileType(pcP.kind)>> ELSE <<>>,
                                  contact |-> contacts[contactId], conversation |-> conversation,
                                  inbox_id |-> int.inboxNumber, by |-> "bridge",
                                  content |-> formattedContent(pcP.content, pcP.kind, data.isGroup,
                                                               data.senderName),
                                  in_reply_to |-> IF isMedia \/ pcP.phase = "fallback"
                                                  THEN null ELSE pcP.replyId]
                      posted == resp \in {"ok", "noid"}
                      n == IF posted THEN pcP.posted + 1 ELSE pcP.posted
                      next == AfterPost(pcP.kind, pcP.phase, pcP.attempt, resp)
                  IN /\ hdMessages' = IF posted THEN Append(hdMessages, message) ELSE hdMessages
                     /\ qC' = IF posted THEN Append(qC, CallbackBody(message)) ELSE qC
                     /\ CASE next = "return" ->
                               /\ pcP' = IdleP
                               /\ resP' = Outcome(TRUE, "", n, pcP.dir)
                               /\ messageIdCache' =
                                     IF resp = "ok" /\ Truthy(data.messageId)
                                     THEN storeMessageIdMapping(messageIdCache, id, data.messageId,
                                              conversation, int.inboxNumber, data.origin, int.accountId)
                                     ELSE messageIdCache
                               /\ UNCHANGED messageTickets
                          [] next = "throw" -> throw(n, Raised(pcP.kind, pcP.phase))
                          [] next = "again" ->
                               /\ pcP' = [pcP EXCEPT !.attempt = @ + 1, !.phase = "retry", !.posted = n,
                                                   !.error = resp]
                               /\ UNCHANGED <<resP, messageIdCache, messageTickets>>
                          [] next = "fallback" ->
                               /\ pcP' = [pcP EXCEPT !.phase = "fallback", !.posted = n, !.error = resp]
                               /\ UNCHANGED <<resP, messageIdCache, messageTickets>>
    /\ UNCHANGED <<integrations, messageTicketsChatwoot, qP, pcC, resC, provMessages,
                   originsLeft, lastOp>>
    /\ UNCHANGED provDeletes
    /\ acks' = [acks EXCEPT !.ackedP = @ + (IF pcP'.state = "idle" THEN ackAfter(resP') ELSE 0)]
    /\ UNCHANGED <<hdInboxes, dataFile>>

(* The first three tests of processWebhookCallback on a callback that is   *)
(* not a deletion: the reason it is dropped for, or "" when it passes.     *)
CallbackGate_PrivateSent(body) ==
    IF body.event # "message_created" THEN "event_not_message_created"
    ELSE IF body.message_type # "outgoing" THEN "message_not_outgoing"
    ELSE ""

CallbackGate(body) ==
    IF body.event # "message_created" THEN "event_not_message_created"
    ELSE IF body.message_type # "outgoing" THEN "message_not_outgoing"
    ELSE IF body.private THEN "mensagem_privada"
    ELSE ""

(***************************************************************************)
(* processWebhookCallback.  CallbackReceive is the handler up to the first *)
(* request to the provider; CallbackSend is one provider request of        *)
(* WhatsAppService.sendMessage and what follows its response.              *)
(***************************************************************************)
CallbackReceive ==
    /\ pcC.state = "idle"
    /\ qC # <<>>
    /\ qC' = Tail(qC)
    /\ LET body == Head(qC)
           conversation == body.conversation
           contact == conversation.sender
           recipient == Recipient(contact)
           messageType == getMessageType(body.attachments)
           byInbox == findIntegrationByInboxId(integrations, conversation.inbox_id)
           i == IF byInbox # 0 THEN byInbox ELSE 1
           consumed == consumeOutgoingTicket(messageTickets, recipient, messageType)
           credits == IF Len(body.attachments) > 0 THEN Len(body.attachments) ELSE 1
           drop(reason) == /\ resC' = Result(FALSE, reason)
                           /\ UNCHANGED <<pcC, messageTickets, messageTicketsChatwoot,
                                          messageIdCache, faultsLeft, provDeletes>>
       IN IF Has(body, "malformed")
          THEN (* JSON.parse threw *) drop("parse_error")
          ELSE IF body.event = "message_updated" /\ body.deleted
          THEN (* processMessageDelete *)
               IF body.message_type # "outgoing" THEN drop("message_not_outgoing")
               ELSE IF body.private THEN drop("mensagem_privada")
               ELSE IF ~Truthy(getApiMessageId(messageIdCache, body.id))
               THEN drop("whatsapp_message_id_not_found")
               ELSE LET whatsAppMessageId == getApiMessageId(messageIdCache, body.id)
                        d == IntegrationForDeletion(integrations, messageIdCache, body)
                        recipientForDel == recipientForDeletion(contact)
                        request == deleteMessage(integrations[d].provider, whatsAppMessageId,
                                                 recipientForDel)
                        call(ok) == [int |-> d, recipient |-> recipientForDel,
                                     request |-> request, ok |-> ok, id |-> body.id]
                    IN IF request = NoRequest
                       THEN /\ resC' = Result(FALSE, "error")
                            /\ UNCHANGED <<pcC, messageTickets, messageTicketsChatwoot,
                                           messageIdCache, faultsLeft, provDeletes>>
                       ELSE \E ok \in BOOLEAN :
                            /\ ~ok => faultsLeft > 0
                            /\ faultsLeft' = IF ok THEN faultsLeft ELSE faultsLeft - 1
                            /\ provDeletes' = Append(provDeletes, call(ok))
                            /\ messageIdCache' =
                                  IF ok THEN removeMessageIdMapping(messageIdCache, body.id)
                                  ELSE messageIdCache
                            /\ resC' = IF ok THEN Result(TRUE, "deleted")
                                       ELSE Result(FALSE, "error")
                            /\ UNCHANGED <<pcC, messageTickets, messageTicketsChatwoot>>
          ELSE IF CallbackGate(body) # "" THEN drop(CallbackGate(body))
          ELSE IF ~Truthy(contact.identifier) THEN drop("contact_identifier_not_found")
          ELSE IF ~Truthy(recipient) THEN drop("no_valid_identifier_found")
          ELSE IF consumed.ret
          THEN /\ resC' = Result(FALSE, "ticket_consumed")
               /\ messageTickets' = consumed.map
               /\ UNCHANGED <<pcC, messageTicketsChatwoot, messageIdCache, faultsLeft,
                              provDeletes>>
          ELSE /\ messageTicketsChatwoot' =
                     AddTickets(messageTicketsChatwoot, recipient, messageType, credits)
               /\ pcC' = [state |-> "send", int |-> i, body |-> body.id,
                          conversation |-> conversation.id, inbox_id |-> conversation.inbox_id,
                          recipient |-> recipient, messageType |-> messageType,
                          parts |-> ProcessedAttachments(body.attachments), sent |-> 0,
                          firstId |-> null, content |-> body.content]
               /\ UNCHANGED <<resC, messageTickets, messageIdCache, faultsLeft, provDeletes>>
    /\ UNCHANGED <<integrations, qP, pcP, resP, hdContacts, hdMessages, provMessages,
                   originsLeft, lastOp>>
    /\ UNCHANGED <<hdConversations, lookupFaults>>
    /\ acks' = [acks EXCEPT !.pulledC = @ + 1,
                          !.ackedC = @ + (IF pcC'.state = "idle" THEN ackAfter(resC') ELSE 0)]
    /\ UNCHANGED <<hdInboxes, dataFile>>
(* The text of request i (counted from 0) of WhatsAppService.sendMessage   *)
(* with attachments: the content on the first, nothing on the others.      *)
attachmentContent_OnEvery(i, content) ==
    content

attachmentContent(i, content) ==
    IF i = 0 /\ Len(content) > 0 THEN content ELSE <<>>

CallbackSend ==
    /\ pcC.state = "send"
    /\ Len(provMessages) < MaxChain
    /\ LET int == integrations[pcC.int]
           requests == IF Len(pcC.parts) = 0 THEN 1 ELSE Len(pcC.parts)
           kind == IF Len(pcC.parts) = 0 THEN "text" ELSE pcC.parts[pcC.sent + 1]
           media == IF kind = "text" THEN "none" ELSE kind
           messageId == MsgId(Len(provMessages) + 1)
           chat == ChatForRecipient(int, pcC.recipient)
           firstId == IF pcC.sent = 0 THEN messageId ELSE pcC.firstId
           text == IF Len(pcC.parts) = 0 THEN pcC.content
                   ELSE attachmentContent(pcC.sent, pcC.content)
       IN \E ok \in BOOLEAN :
          /\ ~ok => faultsLeft > 0
          /\ faultsLeft' = IF ok THEN faultsLeft ELSE faultsLeft - 1
          /\ IF ok
             THEN /\ provMessages' = Append(provMessages,
                        [id |-> messageId, chat |-> chat, media |-> media, via |-> "api",
                         text |-> text])
                  /\ qP' = Append(qP, ProviderEvent(int.provider, chat, TRUE, TRUE, media,
                                                    messageId, null, null))
                  /\ UNCHANGED messageTicketsChatwoot
                  /\ IF pcC.sent + 1 = requests
                     THEN /\ messageIdCache' = storeMessageIdMapping(messageIdCache, pcC.body,
                                 firstId, pcC.conversation, pcC.inbox_id, int.provider, int.id)
                          /\ pcC' = IdleC
                          /\ resC' = Result(TRUE, "")
                     ELSE /\ pcC' = [pcC EXCEPT !.sent = @ + 1, !.firstId = firstId]
                          /\ UNCHANGED <<messageIdCache, resC>>
             ELSE /\ messageTicketsChatwoot' =
                        consumeOutgoingTicketChatwoot(messageTicketsChatwoot, pcC.recipient,
                                                      pcC.messageType).map
                  /\ pcC' = IdleC
                  /\ resC' = Result(FALSE, "error")
                  /\ UNCHANGED <<provMessages, qP, messageIdCache>>
    /\ UNCHANGED <<integrations, messageTickets, qC, pcP, resP, hdContacts, hdMessages,
                   originsLeft, lastOp>>
    /\ UNCHANGED <<provDeletes, hdConversations, lookupFaults>>
    /\ acks' = [acks EXCEPT !.ackedC = @ + (IF pcC'.state = "idle" THEN ackAfter(resC') ELSE 0)]
    /\ UNCHANGED <<hdInboxes, dataFile>>

(***************************************************************************)
(* The environment: a client writes, the agent writes from the phone or   *)
(* in the helpdesk UI, another system sends through the provider's API, a  *)
(* client edits a message, the provider delivers an event again, the       *)
(* agent deletes a message, the eviction timer fires.  One event at a      *)
(* time: the next one arrives when the queues are drained.                 *)
(***************************************************************************)
Medias == {"none", "image", "document"}

UiAttachments == {<<>>, <<"image">>, <<"file">>, <<"image", "image">>}

ProviderOriginated(chat, media, via) ==
    Append(provMessages, [id |-> MsgId(Len(provMessages) + 1), chat |-> chat, media |-> media,
                          via |-> via])

ClientSends ==
    /\ Quiescent
    /\ originsLeft > 0
    /\ originsLeft' = originsLeft - 1
    /\ \E chat \in ChatsOf(integrations[1].provider), media \in Medias :
          /\ provMessages' = ProviderOriginated(chat, media, "client")
          /\ qP' = Append(qP, ProviderEvent(integrations[1].provider, chat, FALSE, FALSE, media,
                                            MsgId(Len(provMessages) + 1), null, null))
    /\ UNCHANGED <<integrations, messageTickets, messageTicketsChatwoot, messageIdCache, qC,
                   pcP, pcC, resP, resC, hdContacts, hdMessages, faultsLeft, lastOp>>
    /\ UNCHANGED <<provDeletes, acks, hdConversations, lookupFaults>>
    /\ UNCHANGED <<hdInboxes, dataFile>>
AgentPhoneSends ==
    /\ Quiescent
    /\ originsLeft > 0
    /\ originsLeft' = originsLeft - 1
    /\ \E chat \in ChatsOf(integrations[1].provider), media \in Medias :
          /\ provMessages' = ProviderOriginated(chat, media, "phone")
          /\ qP' = Append(qP, ProviderEvent(integrations[1].provider, chat, TRUE, FALSE, media,
                                            MsgId(Len(provMessages) + 1), null, null))
    /\ UNCHANGED <<integrations, messageTickets, messageTicketsChatwoot, messageIdCache, qC,
                   pcP, pcC, resP, resC, hdContacts, hdMessages, faultsLeft, lastOp>>
    /\ UNCHANGED <<provDeletes, acks, hdConversations, lookupFaults>>
    /\ UNCHANGED <<hdInboxes, dataFile>>

(* Another system sends through the provider's API: the provider reports  *)
(* the message as fromMe and fromApi although the bridge never sent it.    *)
ApiClientSends ==
    /\ Quiescent
    /\ originsLeft > 0
    /\ originsLeft' = originsLeft - 1
    /\ \E chat \in ChatsOf(integrations[1].provider), media \in Medias :
          /\ provMessages' = ProviderOriginated(chat, media, "other")
          /\ qP' = Append(qP, ProviderEvent(integrations[1].provider, chat, TRUE, TRUE, media,
                                            MsgId(Len(provMessages) + 1), null, null))
    /\ UNCHANGED <<integrations, messageTickets, messageTicketsChatwoot, messageIdCache, qC,
                   pcP, pcC, resP, resC, hdContacts, hdMessages, faultsLeft, lastOp>>
    /\ UNCHANGED <<provDeletes, acks, hdConversations, lookupFaults>>
    /\ UNCHANGED <<hdInboxes, dataFile>>
AgentUiSends ==
    /\ Quiescent
    /\ originsLeft > 0
    /\ originsLeft' = originsLeft - 1
    /\ \E c \in 1..Len(hdContacts), attachments \in UiAttachments :
          LET message == [id |-> Len(hdMessages) + 1, message_type |-> "outgoing",
                          attachments |-> attachments, contact |-> hdContacts[c],
                          conversation |-> c, inbox_id |-> integrations[1].inboxNumber,
                          by |-> "agent", content |-> <<"t">>, in_reply_to |-> null]
          IN /\ Len(hdMessages) < MaxChain
             /\ hdMessages' = Append(hdMessages, message)
             /\ qC' = Append(qC, CallbackBody(message))
    /\ UNCHANGED <<integrations, messageTickets, messageTicketsChatwoot, messageIdCache, qP,
                   pcP, pcC, resP, resC, hdContacts, provMessages, faultsLeft, lastOp>>
    /\ UNCHANGED <<provDeletes, acks, hdConversations, lookupFaults>>
    /\ UNCHANGED <<hdInboxes, dataFile>>

(* The client edits a message it sent: the provider reports the edit as a  *)
(* new event that names the edited message; Z-API may or may not give the  *)
(* edit an id of its own.                                                  *)
ClientEdits ==
    /\ Quiescent
    /\ originsLeft > 0
    /\ originsLeft' = originsLeft - 1
    /\ integrations[1].provider \in {"zapi", "uazapi"}
    /\ \E m \in 1..Len(provMessages),
          ownId \in IF integrations[1].provider = "zapi" THEN BOOLEAN ELSE {TRUE} :
          /\ provMessages[m].via = "client"
          /\ qP' = Append(qP, ProviderEvent(integrations[1].provider, provMessages[m].chat,
                                            FALSE, FALSE, "none",
                                            IF ownId THEN MsgId(Len(provMessages) + 1)
                                                     ELSE provMessages[m].id,
                                            provMessages[m].id,
                                            IF ownId THEN MsgId(Len(provMessages) + 1) ELSE null))
    /\ UNCHANGED <<integrations, messageTickets, messageTicketsChatwoot, messageIdCache, qC,
                   pcP, pcC, resP, resC, hdContacts, hdMessages, provMessages, faultsLeft,
                   lastOp>>
    /\ UNCHANGED <<provDeletes, acks, hdConversations, lookupFaults>>
    /\ UNCHANGED <<hdInboxes, dataFile>>

(* The provider delivers the event of a client message a second time.      *)
ProviderRedelivers ==
    /\ Quiescent
    /\ originsLeft > 0
    /\ originsLeft' = originsLeft - 1
    /\ \E m \in 1..Len(provMessages) :
          /\ provMessages[m].via = "client"
          /\ qP' = Append(qP, ProviderEvent(integrations[1].provider, provMessages[m].chat,
                                            FALSE, FALSE, provMessages[m].media,
                                            provMessages[m].id, null, null))
    /\ UNCHANGED <<integrations, messageTickets, messageTicketsChatwoot, messageIdCache, qC,
                   pcP, pcC, resP, resC, hdContacts, hdMessages, provMessages, faultsLeft,
                   lastOp>>
    /\ UNCHANGED <<provDeletes, acks, hdConversations, lookupFaults>>
    /\ UNCHANGED <<hdInboxes, dataFile>>

(* The agent deletes an outgoing message in the helpdesk UI.               *)
AgentDeletes ==
    /\ Quiescent
    /\ originsLeft > 0
    /\ originsLeft' = originsLeft - 1
    /\ \E m \in 1..Len(hdMessages) :
          /\ hdMessages[m].message_type = "outgoing"
          /\ qC' = Append(qC, DeleteBody(hdMessages[m]))
    /\ UNCHANGED <<integrations, messageTickets, messageTicketsChatwoot, messageIdCache, qP,
                   pcP, pcC, resP, resC, hdContacts, hdMessages, provMessages, faultsLeft,
                   lastOp>>
    /\ UNCHANGED <<provDeletes, acks, hdConversations, lookupFaults>>
    /\ UNCHANGED <<hdInboxes, dataFile>>

(* The eviction timer: the provider echo map and the mapping cache are     *)
(* emptied; the helpdesk echo map is left as it is.                        *)
cleanupOldTickets ==
    /\ Quiescent
    /\ originsLeft > 0
    /\ originsLeft' = originsLeft - 1
    /\ messageTickets' = EmptyMap
    /\ messageIdCache' = <<>>
    /\ lastOp' = Op("cleanup", null, "", null, FALSE)
    /\ UNCHANGED <<integrations, messageTicketsChatwoot, qP, qC, pcP, pcC, resP, resC,
                   hdContacts, hdMessages, provMessages, faultsLeft>>
    /\ UNCHANGED <<provDeletes, acks, hdConversations, lookupFaults>>
    /\ UNCHANGED <<hdInboxes, dataFile>>

(***************************************************************************)
(* One originating message, no failing request, no timer: the round trip.  *)
(***************************************************************************)
InitRoundTrip == InitWorld(1, 0, BOOLEAN)

NextRoundTrip ==
    \/ PrincipalReceive
    \/ PrincipalPost
    \/ CallbackReceive
    \/ CallbackSend
    \/ ClientSends
    \/ AgentPhoneSends
    \/ ApiClientSends
    \/ AgentUiSends

SpecRoundTrip == InitRoundTrip /\ [][NextRoundTrip]_vars

(***************************************************************************)
(* The bridge with its whole environment.                                  *)
(***************************************************************************)
Init == InitWorld(MaxOrigins, MaxFaults, {FALSE})

Next ==
    \/ PrincipalReceive
    \/ PrincipalPost
    \/ CallbackReceive
    \/ CallbackSend
    \/ ClientSends
    \/ AgentPhoneSends
    \/ ApiClientSends
    \/ AgentUiSends
    \/ ClientEdits
    \/ ProviderRedelivers
    \/ AgentDeletes
    \/ cleanupOldTickets

Spec == Init /\ [][Next]_vars

(***************************************************************************)
(* The provider echo map on its own: any sequence of add and consume calls *)
(* and of the eviction timer, for two recipients and two kinds.            *)
(***************************************************************************)
LedgerPhones == {<<"5","5","9">>, <<"3","-group">>}

LedgerKinds == {"text", "image"}

CallAddOutgoingTicket ==
    /\ \E phone \in LedgerPhones, messageType \in LedgerKinds :
          /\ TicketCount(messageTickets, phone, messageType) < MaxCredits
          /\ messageTickets' = addOutgoingTicket(messageTickets, phone, messageType)
          /\ lastOp' = Op("add", phone, messageType, null, FALSE)
    /\ UNCHANGED <<integrations, messageTicketsChatwoot, messageIdCache, qP, qC, pcP, pcC, resP,
                   resC, hdContacts, hdMessages, provMessages, originsLeft, faultsLeft>>
    /\ UNCHANGED <<provDeletes, acks, hdConversations, lookupFaults>>
    /\ UNCHANGED <<hdInboxes, dataFile>>
CallConsumeOutgoingTicket ==
    /\ \E phone \in LedgerPhones, messageType \in LedgerKinds :
          LET r == consumeOutgoingTicket(messageTickets, phone, messageType)
          IN /\ messageTickets' = r.map
             /\ lastOp' = Op("consume", phone, messageType, null, r.ret)
    /\ UNCHANGED <<integrations, messageTicketsChatwoot, messageIdCache, qP, qC, pcP, pcC, resP,
                   resC, hdContacts, hdMessages, provMessages, originsLeft, faultsLeft>>
    /\ UNCHANGED <<provDeletes, acks, hdConversations, lookupFaults>>
    /\ UNCHANGED <<hdInboxes, dataFile>>
InitLedger == InitWorld(MaxOrigins, 0, {FALSE}) /\ integrations[1].provider = "zapi"

NextLedger ==
    \/ CallAddOutgoingTicket
    \/ CallConsumeOutgoingTicket
    \/ cleanupOldTickets

SpecLedger == InitLedger /\ [][NextLedger]_vars

(***************************************************************************)
(* The mapping cache on its own: any sequence of store, remove and timer   *)
(* calls over MaxIds helpdesk ids and MaxIds provider ids.                 *)
(***************************************************************************)
CallStoreMessageIdMapping ==
    /\ \E h \in 1..MaxIds, p \in 1..MaxIds :
          /\ messageIdCache' = storeMessageIdMapping(messageIdCache, h, MsgId(p), 1, 7, "zapi", 1)
          /\ lastOp' = Op("store", String(h), "", MsgId(p), FALSE)
    /\ UNCHANGED <<integrations, messageTickets, messageTicketsChatwoot, qP, qC, pcP, pcC, resP,
                   resC, hdContacts, hdMessages, provMessages, originsLeft, faultsLeft>>
    /\ UNCHANGED <<provDeletes, acks, hdConversations, lookupFaults>>
    /\ UNCHANGED <<hdInboxes, dataFile>>
CallRemoveMessageIdMapping ==
    /\ \E h \in 1..MaxIds :
          /\ messageIdCache' = removeMessageIdMapping(messageIdCache, h)
          /\ lastOp' = Op("remove", String(h), "", getApiMessageId(messageIdCache, h), FALSE)
    /\ UNCHANGED <<integrations, messageTickets, messageTicketsChatwoot, qP, qC, pcP, pcC, resP,
                   resC, hdContacts, hdMessages, provMessages, originsLeft, faultsLeft>>
    /\ UNCHANGED <<provDeletes, acks, hdConversations, lookupFaults>>
    /\ UNCHANGED <<hdInboxes, dataFile>>
NextCache ==
    \/ CallStoreMessageIdMapping
    \/ CallRemoveMessageIdMapping
    \/ cleanupOldTickets

SpecCache == InitLedger /\ [][NextCache]_vars

(***************************************************************************)
(* Properties.                                                             *)
(***************************************************************************)
(* The originating message came from the agent: written in the helpdesk UI *)
(* or sent from the agent's phone.                                         *)
AgentOriginated ==
    \/ \E i \in 1..Len(hdMessages) : hdMessages[i].by = "agent"
    \/ \E i \in 1..Len(provMessages) : provMessages[i].via = "phone"

(* No helpdesk message carries more than one attachment. *)
SinglePart == \A i \in 1..Len(hdMessages) : Len(hdMessages[i].attachments) <= 1

(* No handler run threw, none dropped its event for the group filter. *)
NoErrorNoFilter ==
    /\ resP.reason \notin {"error", "group_disconsidered"}
    /\ resC.reason # "error"

(* C1: for every dialect, once both processors have handled every event    *)
(* that a single agent-originated message caused (written in the helpdesk  *)
(* UI or sent from the agent's phone), there is exactly one helpdesk       *)
(* message and exactly one provider message.                               *)
C1_RoundTripExactlyOnce ==
    (Quiescent /\ AgentOriginated /\ SinglePart /\ NoErrorNoFilter) =>
        (Len(hdMessages) = 1 /\ Len(provMessages) = 1)

(* C2: one originating message, for any kind of contact, causes a chain of *)
(* helpdesk posts and provider sends that ends: it never grows to MaxChain *)
(* posts or MaxChain sends, however large MaxChain is taken.               *)
C2_EchoChainEnds == Len(hdMessages) < MaxChain /\ Len(provMessages) < MaxChain

(* The step in which processWebhookPrincipal takes the event at the head   *)
(* of its queue, and the data it extracts from it.                         *)
PrincipalTakes == pcP.state = "idle" /\ qP # <<>> /\ qP' = Tail(qP)

RoutedTo(body) == findIntegrationForPayload(integrations, body, detectPayloadOrigin(body))

DataOf(body) ==
    extractMessageData(body, integrations[RoutedTo(body)].desconsiderarGrupo,
                       integrations[RoutedTo(body)].defaultCountry)

(* The event is handled (routed, not ignored) and is of the given origin.  *)
Handled(body, fromMe, fromApi) ==
    /\ RoutedTo(body) # 0
    /\ ~DataOf(body).ignored
    /\ DataOf(body).fromMe = fromMe
    /\ DataOf(body).fromApi = fromApi

AgentPhoneFirst == Len(provMessages) >= 1 /\ provMessages[1].via = "phone"

OriginData ==
    extractMessageData(ProviderEvent(integrations[1].provider, provMessages[1].chat, TRUE, FALSE,
                                     provMessages[1].media, provMessages[1].id, null, null),
                       integrations[1].desconsiderarGrupo, integrations[1].defaultCountry)

(* The helpdesk's callback for its first message names the recipient and   *)
(* the kind of the event.                                                  *)
CallbackMatches(R, K) ==
    /\ Len(hdMessages) >= 1
    /\ Recipient(hdMessages[1].contact) = R
    /\ getMessageType(hdMessages[1].attachments) = K

C5_InboundPostsAtMostOnce ==
    /\ (pcP.state = "post" /\ pcP.dir = "incoming") => pcP.posted <= 1
    /\ resP.dir = "incoming" => resP.posted <= 1

(* C6: no two entries of the mapping cache name the same provider message  *)
(* id (the keys, the helpdesk ids, are distinct by construction).          *)
C6_CacheInjective ==
    \A i, j \in 1..Len(messageIdCache) :
        messageIdCache[i].apiMessageId = messageIdCache[j].apiMessageId => i = j

(* The helpdesk id of the last store or remove call. *)
LastKeyId == CHOOSE h \in 0..(MaxIds + 1) : String(h) = lastOp.key

(* C7: right after storeMessageIdMapping(h, p) both lookups answer the     *)
(* pair just stored, and right after removeMessageIdMapping(h) both answer *)
(* null (p being what h mapped to).                                        *)
C7_StoreLookupRemove ==
    /\ lastOp.op = "store" =>
          /\ getApiMessageId(messageIdCache, LastKeyId) = lastOp.id
          /\ getChatwootMessageId(messageIdCache, lastOp.id) = lastOp.key
    /\ lastOp.op = "remove" =>
          /\ getApiMessageId(messageIdCache, LastKeyId) = null
          /\ Truthy(lastOp.id) => getChatwootMessageId(messageIdCache, lastOp.id) = null

(* The counters of both ledger maps, as (map, recipient, kind) triples.    *)
StoredCounters ==
    {<<m, p, t>> \in {messageTickets, messageTicketsChatwoot} \X
                     (DOMAIN messageTickets \cup DOMAIN messageTicketsChatwoot) \X MESSAGE_TYPES :
        p \in DOMAIN m /\ t \in DOMAIN m[p]}

(* C8: every counter stored in either ledger map is at least zero.         *)
C8_CountersNonNegative == \A c \in StoredCounters : c[1][c[2]][c[3]] >= 0

(* A callback has consumed a credit of the provider echo map while credits *)
(* are stored.                                                             *)
C8_Witness ==
    /\ resC.reason = "ticket_consumed"
    /\ StoredCounters # {}

(* C9: no counter with value zero is stored in either ledger map.          *)
C9_NoZeroCounterStored == \A c \in StoredCounters : c[1][c[2]][c[3]] # 0

(* C10: consumeOutgoingTicket answers true exactly when the counter was    *)
(* positive, then takes one off it; otherwise it leaves the map as it is;  *)
(* and consuming right after adding gives the counter its prior value.     *)
C10_ConsumeLaw ==
    \A phone \in LedgerPhones, messageType \in LedgerKinds :
        LET before == TicketCount(messageTickets, phone, messageType)
            r == consumeOutgoingTicket(messageTickets, phone, messageType)
            added == addOutgoingTicket(messageTickets, phone, messageType)
        IN /\ r.ret <=> before > 0
           /\ r.ret => TicketCount(r.map, phone, messageType) = before - 1
           /\ ~r.ret => r.map = messageTickets
           /\ TicketCount(added, phone, messageType) = before + 1
           /\ TicketCount(consumeOutgoingTicket(added, phone, messageType).map,
                          phone, messageType) = before

(* A consume call found a credit and took it while another stayed. *)
C10_Witness ==
    /\ lastOp.op = "consume"
    /\ lastOp.ret
    /\ TicketCount(messageTickets, lastOp.key, lastOp.kind) = 1

(***************************************************************************)
(* The helpdesk echo map and the eviction timer.                           *)
(***************************************************************************)
(* The recipients a consume call may name: those stored and one that is    *)
(* stored nowhere.                                                         *)
HelpdeskRecipients == DOMAIN messageTicketsChatwoot \cup {<<"0">>}

(* consumeOutgoingTicketChatwoot on the stored map: true and no change for *)
(* a counter that is absent or zero, false and one off for a positive one, *)
(* every other counter as it was.                                          *)
HelpdeskConsumeLaw ==
    \A phone \in HelpdeskRecipients, messageType \in MESSAGE_TYPES :
        LET before == TicketCount(messageTicketsChatwoot, phone, messageType)
            r == consumeOutgoingTicketChatwoot(messageTicketsChatwoot, phone, messageType)
        IN /\ before = 0 => (r.ret /\ r.map = messageTicketsChatwoot)
           /\ before > 0 => (~r.ret /\ TicketCount(r.map, phone, messageType) = before - 1)
           /\ \A p \in HelpdeskRecipients, t \in MESSAGE_TYPES :
                 <<p, t>> # <<phone, messageType>> =>
                     TicketCount(r.map, p, t) = TicketCount(messageTicketsChatwoot, p, t)

C12_TimerWipesEverything ==
    [][cleanupOldTickets =>
          /\ messageIdCache' = <<>>
          /\ messageTickets' = EmptyMap
          /\ messageTicketsChatwoot' = EmptyMap]_vars

(***************************************************************************)
(* Deletion from the helpdesk: two tenants of one dialect, an agent        *)
(* message sent in either inbox, then a message_updated callback that      *)
(* marks it deleted.  The callbacks may lack the inbox id, the sender or   *)
(* the message type.  With two tenants of one dialect the provider's echo  *)
(* of the send names no tenant and processWebhookPrincipal drops it.       *)
(***************************************************************************)
InboxOf(t) == integrations[t].inboxNumber

AgentUiSendsIn ==
    /\ Quiescent
    /\ originsLeft > 0
    /\ originsLeft' = originsLeft - 1
    /\ \E t \in 1..Len(integrations), c \in 1..Len(hdContacts) :
       \E inbox \in {InboxOf(t), 0} :
          LET message == [id |-> Len(hdMessages) + 1, message_type |-> "outgoing",
                          attachments |-> <<>>, contact |-> hdContacts[c],
                          conversation |-> c, inbox_id |-> InboxOf(t),
                          by |-> "agent", content |-> <<"t">>, in_reply_to |-> null]
          IN /\ hdMessages' = Append(hdMessages, message)
             /\ qC' = Append(qC, [CallbackBody(message) EXCEPT !.conversation.inbox_id = inbox])
    /\ UNCHANGED <<integrations, messageTickets, messageTicketsChatwoot, messageIdCache, qP,
                   pcP, pcC, resP, resC, hdContacts, provMessages, provDeletes, hdConversations,
                   lookupFaults, faultsLeft,
                   lastOp, acks>>
    /\ UNCHANGED <<hdInboxes, dataFile>>

HelpdeskDeletes ==
    /\ Quiescent
    /\ originsLeft > 0
    /\ originsLeft' = originsLeft - 1
    /\ \E m \in 1..Len(hdMessages) :
       \E message_type \in {"outgoing", ""}, inbox \in {hdMessages[m].inbox_id, 0},
          sender \in {hdMessages[m].contact, NoContact} :
          /\ hdMessages[m].message_type = "outgoing"
          /\ qC' = Append(qC, [DeleteBody(hdMessages[m]) EXCEPT
                                  !.message_type = message_type,
                                  !.conversation.inbox_id = inbox,
                                  !.conversation.sender = sender])
    /\ UNCHANGED <<integrations, messageTickets, messageTicketsChatwoot, messageIdCache, qP,
                   pcP, pcC, resP, resC, hdContacts, hdMessages, provMessages, provDeletes,
                   hdConversations, lookupFaults,
                   faultsLeft, lastOp, acks>>
    /\ UNCHANGED <<hdInboxes, dataFile>>

InitDelete ==
    \E p \in Providers :
        InitState(<<Integration(1, p, FALSE, 7), Integration(2, p, FALSE, 8)>>,
                  MaxOrigins, MaxFaults)

NextDelete ==
    \/ AgentUiSendsIn
    \/ HelpdeskDeletes
    \/ CallbackReceive
    \/ CallbackSend
    \/ PrincipalReceive

SpecDelete == InitDelete /\ [][NextDelete]_vars

(* The callback consumer takes the head of its subject. *)
CallbackTakes == pcC.state = "idle" /\ qC # <<>> /\ qC' = Tail(qC)

(* A deletion callback whose message has a mapping and which names the     *)
(* contact.                                                                *)
MappedDeletion(body) ==
    /\ body.event = "message_updated"
    /\ body.deleted
    /\ Truthy(getApiMessageId(messageIdCache, body.id))
    /\ body.conversation.sender # NoContact

(* The tenant the deletion is for: the one of the callback's inbox id,     *)
(* else the one of the inbox id the mapping entry holds, else the first.   *)
TenantFor(body) ==
    LET entry == messageIdCache[KeyIndex(messageIdCache, String(body.id))]
        ofInbox == {t \in 1..Len(integrations) : InboxOf(t) = body.conversation.inbox_id}
        ofEntry == {t \in 1..Len(integrations) : integrations[t].inboxId = entry.inboxId}
    IN IF ofInbox # {} THEN CHOOSE t \in ofInbox : TRUE
       ELSE IF ofEntry # {} THEN CHOOSE t \in ofEntry : TRUE
       ELSE 1

(* The recipient a deletion resolves: the group identifier of a group, else *)
(* the phone number, else the identifier.                                  *)
ResolvedRecipient(contact) ==
    IF IsGroupIdentifier(contact.identifier) THEN contact.identifier
    ELSE IF Truthy(contact.phone_number) THEN contact.phone_number
    ELSE contact.identifier

(* One delete call follows, for the mapped provider id, the resolved       *)
(* recipient and the chosen tenant; a Z-API request names the recipient    *)
(* too; when the call succeeds the mapping entry is gone.                  *)
DeleteIssued(body) ==
    /\ Len(provDeletes') = Len(provDeletes) + 1
    /\ LET call == provDeletes'[Len(provDeletes')]
       IN /\ call.request.messageId = getApiMessageId(messageIdCache, body.id)
          /\ call.recipient = ResolvedRecipient(body.conversation.sender)
          /\ call.int = TenantFor(body)
          /\ call.request.api = integrations[call.int].provider
          /\ call.request.api = "zapi" =>
                call.request.phone \in {call.recipient, DigitsOnly(call.recipient)}
          /\ call.ok => /\ getApiMessageId(messageIdCache', body.id) = null
                        /\ resC' = Result(TRUE, "deleted")

DeletionToCall(body) ==
    /\ body.event = "message_updated"
    /\ body.deleted
    /\ body.message_type = "outgoing"
    /\ ~body.private
    /\ Truthy(getApiMessageId(messageIdCache, body.id))

(* This step made a delete call and the provider accepted it. *)
DeleteSucceeded ==
    /\ Len(provDeletes') = Len(provDeletes) + 1
    /\ provDeletes'[Len(provDeletes')].ok

(* C14: processMessageDelete removes the mapping entry exactly when the    *)
(* provider delete succeeded; when it failed the cache is as it was and    *)
(* the error propagates; a Z-API delete with no recipient fails without a  *)
(* request, a UAZAPI or Wuzapi delete with no recipient is still made.     *)
C14_MappingRemovedIffDeleted ==
    [][(CallbackTakes /\ DeletionToCall(Head(qC))) =>
         LET body == Head(qC)
             norecipient == body.conversation.sender = NoContact
             provider == integrations[TenantFor(body)].provider
         IN /\ DeleteSucceeded =>
                  /\ getApiMessageId(messageIdCache', body.id) = null
                  /\ Len(messageIdCache') = Len(messageIdCache) - 1
            /\ ~DeleteSucceeded =>
                  /\ messageIdCache' = messageIdCache
                  /\ resC' = Result(FALSE, "error")
            /\ (norecipient /\ provider = "zapi") =>
                  /\ provDeletes' = provDeletes
                  /\ ~DeleteSucceeded
            /\ (norecipient /\ provider # "zapi") =>
                  /\ Len(provDeletes') = Len(provDeletes) + 1
                  /\ provDeletes'[Len(provDeletes')].recipient = null]_vars

(* A Z-API deletion that named no contact has failed without a request to  *)
(* the provider and the mapping entry is still there.                      *)
C14_Witness ==
    /\ integrations[1].provider = "zapi"
    /\ originsLeft = 0
    /\ Quiescent
    /\ resC = Result(FALSE, "error")
    /\ provDeletes = <<>>
    /\ faultsLeft = MaxFaults
    /\ messageIdCache # <<>>

(***************************************************************************)
(* The two consumer loops.  Besides what the routes publish, a subject may *)
(* hold a message that is not JSON.  Each consumer takes its steps         *)
(* whenever it can: a request to the helpdesk or to the provider returns   *)
(* or fails within its timeout.                                            *)
(***************************************************************************)
Malformed == [malformed |-> TRUE]

MalformedPublished ==
    /\ Quiescent
    /\ originsLeft > 0
    /\ originsLeft' = originsLeft - 1
    /\ \E subject \in {"webhook.principal", "webhook.callback"} :
          /\ qP' = IF subject = "webhook.principal" THEN Append(qP, Malformed) ELSE qP
          /\ qC' = IF subject = "webhook.callback" THEN Append(qC, Malformed) ELSE qC
    /\ UNCHANGED <<integrations, messageTickets, messageTicketsChatwoot, messageIdCache,
                   pcP, pcC, resP, resC, hdContacts, hdMessages, provMessages, provDeletes,
                   hdConversations, lookupFaults,
                   faultsLeft, lastOp, acks>>
    /\ UNCHANGED <<hdInboxes, dataFile>>

NextAck ==
    \/ ClientSends
    \/ AgentUiSends
    \/ MalformedPublished
    \/ PrincipalReceive
    \/ PrincipalPost
    \/ CallbackReceive
    \/ CallbackSend

(* The consumer loops are the same for every dialect: two dialects are    *)
(* enough to have handlers that return, drop, throw and fail to parse.     *)
InitAck ==
    \E p \in {"zapi", "uazapi"} :
        InitState(<<Integration(1, p, FALSE, 7)>>, MaxOrigins, MaxFaults)

SpecAck ==
    /\ InitAck
    /\ [][NextAck]_vars
    /\ WF_vars(PrincipalReceive \/ PrincipalPost)
    /\ WF_vars(CallbackReceive \/ CallbackSend)

(* The bounded chains have reached their cap: the model follows them no    *)
(* further.                                                                *)
AtCap == Len(hdMessages) >= MaxChain \/ Len(provMessages) >= MaxChain

(* Every message pulled from either subject has one acknowledgement, the   *)
(* one in processing none yet.                                             *)
AckedExactlyOnce ==
    /\ acks.ackedP = acks.pulledP - (IF pcP.state = "idle" THEN 0 ELSE 1)
    /\ acks.ackedC = acks.pulledC - (IF pcC.state = "idle" THEN 0 ELSE 1)

(* C15: every message pulled by either consumer is acknowledged exactly    *)
(* once, whether its processing returned, dropped it, failed to parse it   *)
(* or threw; and whenever a message is waiting or in processing, both      *)
(* subjects are eventually drained and both consumers idle again, so no    *)
(* message stays unacknowledged and none stops the next from being pulled. *)
C15_EveryMessageAcked ==
    /\ []AckedExactlyOnce
    /\ ~Quiescent ~> (Quiescent \/ AtCap)

(* Two agent messages went through the callback consumer, one of them      *)
(* failing at the provider, and both callbacks are acknowledged.           *)
C15_Witness ==
    /\ Quiescent
    /\ Len(hdMessages) = 2
    /\ \A m \in 1..2 : hdMessages[m].by = "agent"
    /\ faultsLeft = 0
    /\ Len(provMessages) = 1
    /\ acks.pulledC = 2
    /\ acks.ackedC = 2

(* C16: a consumer starts on a message only when every message it pulled   *)
(* before has been processed to the end and acknowledged, and the message  *)
(* it starts on is the oldest one waiting in its subject.                  *)
C16_OneAtATimeInOrder ==
    [][/\ acks'.pulledP # acks.pulledP =>
             /\ acks'.pulledP = acks.pulledP + 1
             /\ acks.ackedP = acks.pulledP
             /\ pcP.state = "idle"
             /\ qP # <<>> /\ qP' = Tail(qP)
       /\ acks'.pulledC # acks.pulledC =>
             /\ acks'.pulledC = acks.pulledC + 1
             /\ acks.ackedC = acks.pulledC
             /\ pcC.state = "idle"
             /\ qC # <<>> /\ qC' = Tail(qC)]_vars

(* The two subjects interleave: the principal handler waits for the        *)
(* helpdesk's answer to a POST while the callback handler waits for the    *)
(* provider's answer to a send, each consumer having finished a message    *)
(* before.                                                                 *)
C16_Witness ==
    /\ pcP.state = "post"
    /\ pcC.state = "send"
    /\ acks.pulledP + acks.pulledC >= 3

(***************************************************************************)
(* The conversation upsert.  One tenant whose reopen policy is on or off;  *)
(* clients write, an agent resolves open conversations in the helpdesk,    *)
(* and the helpdesk may answer one conversation request of the bridge with *)
(* an error.  Nothing is sent from the helpdesk here, so the callback      *)
(* consumer only drops the callbacks of the bridge's own posts.            *)
(***************************************************************************)
MaxLookupFaults == 1

AgentResolves ==
    /\ \E c \in 1..Len(hdConversations) :
          /\ hdConversations[c].status = "open"
          /\ hdConversations' = [hdConversations EXCEPT ![c].status = "resolved"]
    /\ UNCHANGED <<integrations, messageTickets, messageTicketsChatwoot, messageIdCache, qP, qC,
                   pcP, pcC, resP, resC, hdContacts, hdMessages, provMessages, provDeletes,
                   originsLeft, faultsLeft, lastOp, acks, lookupFaults>>
    /\ UNCHANGED <<hdInboxes, dataFile>>

InitReopen ==
    \E p \in Providers, r \in BOOLEAN :
        LET int == [Integration(1, p, FALSE, 7) EXCEPT !.reabrirConversa = r]
        IN InitBase(<<int>>, SeqOfSet(KnownContacts(int)), MaxOrigins, 0, MaxLookupFaults)

NextReopen ==
    \/ ClientSends
    \/ AgentResolves
    \/ PrincipalReceive
    \/ PrincipalPost
    \/ CallbackReceive

SpecReopen == InitReopen /\ [][NextReopen]_vars

(* The contact the pending post is for: 0 when the helpdesk does not know  *)
(* it yet.                                                                 *)
PostContact ==
    LET args == ContactArgs(pcP.data)
    IN findContactByPhone(hdContacts, args.phone, args.lid, args.jid)

ConversationsOf(contactId, inboxId) ==
    {c \in 1..Len(hdConversations) :
        hdConversations[c].contact = contactId /\ hdConversations[c].inbox = inboxId}

(* The upsert of an inbound event finds conversation c resolved, the only  *)
(* conversation of the contact in the tenant's inbox, the policy being on. *)
UpsertMeetsResolved(c) ==
    /\ PrincipalPost
    /\ pcP.dir = "incoming"
    /\ integrations[pcP.int].reabrirConversa
    /\ PostContact # 0
    /\ ConversationsOf(PostContact, integrations[pcP.int].inboxNumber) = {c}
    /\ hdConversations[c].status = "resolved"

(* C17: with the reopen policy on, an inbound event of a contact whose     *)
(* only conversation in the inbox is resolved leaves that conversation     *)
(* open and creates no conversation, whatever the helpdesk answers to the  *)
(* listing and status requests.                                            *)
C17_ResolvedReopenedNoneCreated ==
    [][\A c \in 1..Len(hdConversations) :
          UpsertMeetsResolved(c) =>
             /\ hdConversations'[c].status = "open"
             /\ Len(hdConversations') = Len(hdConversations)]_vars

(* What the upsert does keep: when every conversation request is answered, *)
(* the resolved conversation is reopened, it receives the post, and no     *)
(* conversation is created.                                                *)
C17_ReopenedWhenAnswered ==
    [][\A c \in 1..Len(hdConversations) :
          UpsertMeetsResolved(c) /\ lookupFaults' = lookupFaults =>
             /\ hdConversations' = [hdConversations EXCEPT ![c].status = "open"]
             /\ hdMessages'[Len(hdMessages')].conversation = c]_vars

(***************************************************************************)
(* Group chats at a helpdesk that knows no contact yet: one tenant of any  *)
(* dialect that processes groups; clients write and the agent writes from  *)
(* the phone, so that the bridge has to create the contacts.               *)
(***************************************************************************)
InitGroup ==
    \E p \in Providers : InitBase(<<Integration(1, p, FALSE, 7)>>, <<>>, MaxOrigins, 0, 0)

NextGroup ==
    \/ ClientSends
    \/ AgentPhoneSends
    \/ PrincipalReceive
    \/ PrincipalPost
    \/ CallbackReceive

SpecGroup == InitGroup /\ [][NextGroup]_vars

(* The chat of the event the principal handler is working on: the          *)
(* environment originates one message at a time.                           *)
CurrentChat == provMessages[Len(provMessages)].chat

GroupWire(wire) == EndsWith(wire, "@g.us") \/ EndsWith(wire, "-group")

GroupContact(wire) == [identifier |-> wire, phone_number |-> null]

(* The post of a group event leaves the wire identifier untouched in the   *)
(* normalised event, files the message under the contact named by it, and  *)
(* a contact it creates is that contact, without phone number.             *)
GroupPostedVerbatim ==
    LET wire == CurrentChat.wire
    IN /\ pcP.data.phone = wire
       /\ Len(hdContacts') >= Len(hdContacts)
       /\ \A k \in Len(hdContacts) + 1..Len(hdContacts') : hdContacts'[k] = GroupContact(wire)
       /\ Len(hdMessages') = Len(hdMessages) + 1
       /\ hdMessages'[Len(hdMessages')].contact = GroupContact(wire)

GroupPost(providers) ==
    /\ PrincipalPost
    /\ integrations[pcP.int].provider \in providers
    /\ pcP.data.isGroup
    /\ GroupWire(CurrentChat.wire)

(* C18: for the Z-API and UAZAPI dialects, a group event whose chat is     *)
(* named <id>-group or <id>@g.us keeps that name through normalisation and *)
(* is filed under the contact whose identifier is that name, created       *)
(* without phone_number.                                                   *)
C18_GroupIdVerbatimZapiUazapi ==
    [][GroupPost({"zapi", "uazapi"}) => GroupPostedVerbatim]_vars

(* C18 as stated: the same for every dialect.                              *)
C18_GroupIdVerbatim ==
    [][GroupPost(Providers) => GroupPostedVerbatim]_vars

C18_Witness ==
    /\ integrations[1].provider \in {"zapi", "uazapi"}
    /\ Len(hdContacts) = 1
    /\ GroupWire(hdContacts[1].identifier)
    /\ hdContacts[1].phone_number = null
    /\ Len(hdMessages) = 2
    /\ hdMessages[1].contact = hdContacts[1]
    /\ hdMessages[2].contact = hdContacts[1]
    /\ hdMessages[1].message_type # hdMessages[2].message_type

(***************************************************************************)
(* A tenant that ignores groups, at a helpdesk that knows the group        *)
(* contacts all the same (the flag does not stop an agent from writing to  *)
(* them).  Besides messages, a Z-API instance reports notifications: a     *)
(* message revoked in a chat, a participant leaving a group.               *)
(***************************************************************************)
ZapiNotification(chat, notification, messageId) ==
    [phone |-> chat.wire, momment |-> 1, isGroup |-> chat.isGroup, chatName |-> chat.name,
     notification |-> notification, messageId |-> messageId, fromMe |-> FALSE, fromApi |-> FALSE]

ProviderNotifies ==
    /\ Quiescent
    /\ originsLeft > 0
    /\ originsLeft' = originsLeft - 1
    /\ integrations[1].provider = "zapi"
    /\ \/ \E k \in 1..Len(provMessages) :
             qP' = Append(qP, ZapiNotification(provMessages[k].chat, "REVOKE", provMessages[k].id))
       \/ \E chat \in ChatsOf("zapi") :
             qP' = Append(qP, ZapiNotification(chat, "GROUP_PARTICIPANT_LEAVE", null))
    /\ UNCHANGED <<integrations, messageTickets, messageTicketsChatwoot, messageIdCache, qC,
                   pcP, pcC, resP, resC, hdContacts, hdMessages, provMessages, provDeletes,
                   faultsLeft, lastOp, acks, hdConversations, lookupFaults>>
    /\ UNCHANGED <<hdInboxes, dataFile>>

InitIgnore ==
    \E p \in Providers :
        InitBase(<<Integration(1, p, TRUE, 7)>>,
                 SeqOfSet(KnownContacts(Integration(1, p, FALSE, 7))), MaxOrigins, 0, 0)

NextIgnore ==
    \/ ClientSends
    \/ AgentPhoneSends
    \/ AgentUiSends
    \/ ProviderNotifies
    \/ PrincipalReceive
    \/ PrincipalPost
    \/ CallbackReceive
    \/ CallbackSend

SpecIgnore == InitIgnore /\ [][NextIgnore]_vars

(* The flag by which each dialect marks a group.                           *)
MarksGroup(body) ==
    CASE detectPayloadOrigin(body) = "zapi" -> body.isGroup
      [] detectPayloadOrigin(body) = "uazapi" -> body.message.isGroup
      [] detectPayloadOrigin(body) = "wuzapi" -> body.event.Info.IsGroup
      [] OTHER -> FALSE

(* The principal consumer takes an event marked as a group's, for a tenant *)
(* that ignores groups.                                                    *)
GroupEventTaken ==
    /\ PrincipalReceive
    /\ integrations[1].desconsiderarGrupo
    /\ MarksGroup(Head(qP))

DroppedAsGroup ==
    /\ resP' = Result(FALSE, "group_disconsidered")
    /\ pcP' = IdleP
    /\ UNCHANGED <<hdContacts, hdConversations, hdMessages, qC,
                   messageTickets, messageTicketsChatwoot, messageIdCache>>

(* C19: a tenant that ignores groups drops every message event marked as a *)
(* group's, of any dialect, with reason group_disconsidered, asking the    *)
(* helpdesk nothing and leaving both ledger maps and the cache as they     *)
(* were.                                                                   *)
C19_GroupMessageDropped ==
    [][GroupEventTaken /\ ~isZapiNotificationEvent(Head(qP)) => DroppedAsGroup]_vars

(* C19 as stated: the same for every event marked as a group's.            *)
C19_GroupEventDropped ==
    [][GroupEventTaken => DroppedAsGroup]_vars

(* The echo of an agent's message to a group has been dropped: the credit  *)
(* the callback added for it is still in the helpdesk echo map.            *)
C19_Witness ==
    /\ integrations[1].desconsiderarGrupo
    /\ Quiescent
    /\ resP = Result(FALSE, "group_disconsidered")
    /\ Len(hdMessages) = 1
    /\ Len(provMessages) = 1
    /\ provMessages[1].chat.isGroup
    /\ messageTicketsChatwoot # EmptyMap
    /\ acks.ackedP = 1

(***************************************************************************)
(* Edits.  A Z-API or UAZAPI tenant that processes groups; clients write,  *)
(* and a client rewrites a message: the provider reports the new text (or  *)
(* the media with an empty text) under a new id, naming the message that   *)
(* was edited - one the bridge has seen, or one older than the bridge's    *)
(* cache - and possibly a message that was replied to.                     *)
(***************************************************************************)
MaxEditOrigins == 3

WithReply(provider, event, replyTo) ==
    IF provider = "zapi" THEN [event EXCEPT !.referenceMessageId = replyTo]
    ELSE [event EXCEPT !.message.stanzaID = replyTo]

InChat(chat) == {m \in 1..Len(provMessages) : provMessages[m].chat = chat}

ClientRewrites ==
    /\ Quiescent
    /\ originsLeft > 0
    /\ originsLeft' = originsLeft - 1
    /\ integrations[1].provider \in {"zapi", "uazapi"}
    /\ \E chat \in ChatsOf(integrations[1].provider), media \in {"none", "image"} :
       \E editOf \in {MsgId(0)} \cup {provMessages[m].id : m \in InChat(chat)},
          replyTo \in {null} \cup {provMessages[m].id : m \in InChat(chat)} :
          LET new == MsgId(Len(provMessages) + 1)
              event == ProviderEvent(integrations[1].provider, chat, FALSE, FALSE, media, new, editOf, new)
          IN /\ provMessages' = Append(provMessages, [id |-> new, chat |-> chat, media |-> media,
                                                      via |-> "edit", editOf |-> editOf,
                                                      replyTo |-> replyTo])
             /\ qP' = Append(qP, WithReply(integrations[1].provider, event, replyTo))
    /\ UNCHANGED <<integrations, messageTickets, messageTicketsChatwoot, messageIdCache, qC,
                   pcP, pcC, resP, resC, hdContacts, hdMessages, provDeletes, faultsLeft,
                   lastOp, acks, hdConversations, lookupFaults>>
    /\ UNCHANGED <<hdInboxes, dataFile>>

InitEdit ==
    \E p \in {"zapi", "uazapi"} :
        LET int == Integration(1, p, FALSE, 7)
        IN InitBase(<<int>>, SeqOfSet(KnownContacts(int)), MaxEditOrigins, 0, 0)

NextEdit ==
    \/ ClientSends
    \/ ClientRewrites
    \/ PrincipalReceive
    \/ PrincipalPost
    \/ CallbackReceive

SpecEdit == InitEdit /\ [][NextEdit]_vars

(* The helpdesk client posts for an inbound event that names an edited     *)
(* message and has an id of its own.                                       *)
EditPost ==
    /\ PrincipalPost
    /\ ~pcP.data.fromMe
    /\ Truthy(pcP.data.editedMessageId)
    /\ Truthy(pcP.data.messageId)
    /\ pcP.data.messageId # pcP.data.editedMessageId

EditTarget == getChatwootMessageMappingByApiId(messageIdCache, pcP.data.editedMessageId).chatwootMessageId

Marked(body) == IF Truthy(body) THEN body \o <<"\n">> \o EditMarker ELSE EditMarker

HasMarker(content) == \E k \in 1..Len(content) : content[k] = EditMarker[1]

(* One incoming message is posted and the handler is done.                 *)
OneIncomingPosted ==
    /\ Len(hdMessages') = Len(hdMessages) + 1
    /\ hdMessages'[Len(hdMessages')].message_type = "incoming"
    /\ pcP' = IdleP
    /\ resP'.processed /\ resP'.posted = 1

(* What a group member wrote is posted under the member's name.            *)
UnderName(content) ==
    IF pcP.data.isGroup /\ Truthy(pcP.data.senderName)
    THEN SenderPrefix(pcP.data.senderName) \o <<"\n">> \o content
    ELSE content

(* C20: an inbound edit with an id of its own, of a message M0.  If the    *)
(* cache maps M0 to H, one incoming text message is posted with            *)
(* in_reply_to = H, whatever the event's replyId, whose content is the     *)
(* body, a newline and the marker (the marker alone for an empty body),    *)
(* in a group preceded by the writer's name and a newline.  If M0 is not   *)
(* mapped, one ordinary incoming message is posted, without the marker.    *)
C20_EditPostedAsReply ==
    [][EditPost =>
          LET message == hdMessages'[Len(hdMessages')]
          IN /\ OneIncomingPosted
             /\ IF Truthy(EditTarget)
                THEN /\ message.attachments = <<>>
                     /\ message.in_reply_to = EditTarget
                     /\ message.content = UnderName(Marked(pcP.data.text))
                ELSE /\ ~HasMarker(message.content)
                     /\ message.attachments =
                           IF pcP.data.media = "none" THEN <<>> ELSE <<FileType(pcP.data.media)>>]_vars

(* C20 as stated: the content of the reply is the body, a newline and the  *)
(* marker, the marker alone for an empty body.                             *)
C20_EditContentIsBodyAndMarker ==
    [][EditPost =>
          LET message == hdMessages'[Len(hdMessages')]
          IN /\ OneIncomingPosted
             /\ IF Truthy(EditTarget)
                THEN /\ message.attachments = <<>>
                     /\ message.in_reply_to = EditTarget
                     /\ message.content = Marked(pcP.data.text)
                ELSE ~HasMarker(message.content)]_vars

(* An edit that also answers another message has been posted: the reply    *)
(* target is the edited message's helpdesk id, not the answered one's.     *)
C20_Witness ==
    /\ Quiescent
    /\ Len(provMessages) = 3 /\ Len(hdMessages) = 3
    /\ provMessages[3].via = "edit"
    /\ provMessages[3].editOf = provMessages[1].id
    /\ provMessages[3].replyTo = provMessages[2].id
    /\ getChatwootMessageId(messageIdCache, provMessages[2].id) = <<"2">>
    /\ hdMessages[3].in_reply_to = <<"1">>
    /\ hdMessages[3].message_type = "incoming"
    /\ HasMarker(hdMessages[3].content)

(***************************************************************************)
(* Routing.  The bridge is loaded with one tenant or with several, of the  *)
(* same or of different dialects; UAZAPI tenants differ by the number      *)
(* they are connected to.  Every provider instance posts to the same       *)
(* webhook, so the events of any dialect arrive, and with them payloads    *)
(* that are of no dialect at all.                                          *)
(***************************************************************************)
Tenant(id, provider, number) ==
    [Integration(id, provider, FALSE, 6 + id) EXCEPT !.normalizedNumber = number]

TenantLists ==
    {<<Tenant(1, p, <<"5","5","1">>)>> : p \in Providers}
    \cup {<<Tenant(1, "zapi", <<>>), Tenant(2, "uazapi", <<"5","5","1">>)>>,
          <<Tenant(1, "zapi", <<>>), Tenant(2, "zapi", <<>>), Tenant(3, "wuzapi", <<>>)>>,
          <<Tenant(1, "wuzapi", <<>>), Tenant(2, "wuzapi", <<>>)>>,
          <<Tenant(1, "uazapi", <<"5","5","1">>), Tenant(2, "uazapi", <<"5","5","2">>)>>,
          <<Tenant(1, "uazapi", <<"5","5","1">>), Tenant(2, "uazapi", <<"5","5","9">>)>>}

(* What an instance may put in the owner field of a UAZAPI event.          *)
Owners == {null, <<"5","5","1">>, <<"+","5","5","2">>, <<"5","5","3">>, <<"x">>}

UnknownPayloads ==
    {[phone |-> <<"5","5","9">>, text |-> <<"t">>],
     [phone |-> <<"5","5","9">>, text |-> <<"t">>, fromMe |-> TRUE],
     [text |-> <<"t">>],
     [type |-> "ReadReceipt"]}

ProviderDelivers ==
    /\ Quiescent
    /\ originsLeft > 0
    /\ originsLeft' = originsLeft - 1
    /\ \E p \in Providers, owner \in Owners, inMessage \in BOOLEAN :
       \E chat \in ChatsOf(p) :
          LET event == ProviderEvent(p, chat, FALSE, FALSE, "none",
                                     MsgId(Len(provMessages) + 1), null, null)
          IN /\ p # "uazapi" => owner = null /\ ~inMessage
             /\ owner = null => ~inMessage
             /\ provMessages' = Append(provMessages,
                   [id |-> MsgId(Len(provMessages) + 1), chat |-> chat, media |-> "none",
                    via |-> "client", dialect |-> p, owner |-> owner])
             /\ qP' = Append(qP,
                   IF p # "uazapi" THEN event
                   ELSE IF inMessage
                   THEN [event EXCEPT !.message = [f \in DOMAIN event.message \cup {"owner"} |->
                                                      IF f = "owner" THEN owner ELSE event.message[f]]]
                   ELSE [event EXCEPT !.owner = owner])
    /\ UNCHANGED <<integrations, messageTickets, messageTicketsChatwoot, messageIdCache, qC,
                   pcP, pcC, resP, resC, hdContacts, hdMessages, faultsLeft, lastOp>>
    /\ UNCHANGED <<provDeletes, acks, hdConversations, lookupFaults>>
    /\ UNCHANGED <<hdInboxes, dataFile>>
UnknownPublished ==
    /\ Quiescent
    /\ originsLeft > 0
    /\ originsLeft' = originsLeft - 1
    /\ \E body \in UnknownPayloads : qP' = Append(qP, body)
    /\ UNCHANGED <<integrations, messageTickets, messageTicketsChatwoot, messageIdCache, qC,
                   pcP, pcC, resP, resC, hdContacts, hdMessages, provMessages, faultsLeft, lastOp>>
    /\ UNCHANGED <<provDeletes, acks, hdConversations, lookupFaults>>
    /\ UNCHANGED <<hdInboxes, dataFile>>
InitRoute ==
    \E ints \in TenantLists : InitBase(ints, <<>>, MaxOrigins, 0, 0)

NextRoute ==
    \/ ProviderDelivers
    \/ UnknownPublished
    \/ PrincipalReceive
    \/ PrincipalPost
    \/ CallbackReceive

SpecRoute == InitRoute /\ [][NextRoute]_vars

(* The handler takes an event and returns at once, unprocessed, with the   *)
(* given reason, the ledger and the mapping cache as they were and no      *)
(* request to the helpdesk under way.                                      *)
DroppedWith(reasons) ==
    /\ pcP'.state = "idle"
    /\ ~resP'.processed
    /\ resP'.reason \in reasons
    /\ UNCHANGED <<messageTickets, messageTicketsChatwoot, messageIdCache, hdContacts,
                   hdMessages, hdConversations>>

IsUnknown(body) == ~Has(body, "malformed") /\ detectPayloadOrigin(body) = "unknown"

(* C21: a payload of unknown dialect is dropped whatever the number of     *)
(* tenants: no helpdesk request, no change to ledger or mapping cache.     *)
C21_UnknownAlwaysDropped ==
    [][(PrincipalTakes /\ IsUnknown(Head(qP))) =>
          DroppedWith({"integration_not_found", "message_ignored_by_config"})]_vars

(* With several tenants the payload of unknown dialect finds no tenant.    *)
C21_UnknownDroppedSeveralTenants ==
    [][(PrincipalTakes /\ IsUnknown(Head(qP)) /\ Len(integrations) > 1) =>
          DroppedWith({"integration_not_found"})]_vars

(* The tenants of a dialect, and the UAZAPI tenants connected to a number. *)
TenantsOf(provider) == {i \in 1..Len(integrations) : integrations[i].provider = provider}

ConnectedTo(number) ==
    {i \in TenantsOf("uazapi") : integrations[i].normalizedNumber = number}

First(S) == IF S = {} THEN 0 ELSE CHOOSE i \in S : \A j \in S : i <= j

OwnerOf(body) ==
    IF Truthy(body.owner) THEN body.owner
    ELSE IF Has(body.message, "owner") THEN body.message.owner ELSE null

ChatDigits(body) == DigitsOnly(Replace(body.message.chatid, "@s.whatsapp.net"))

(* The tenant of a message event: the only tenant when there is one; for   *)
(* Z-API and Wuzapi the only tenant of the dialect; for UAZAPI the tenant  *)
(* connected to the owner's number when the event names an owner with      *)
(* digits, and only when it names none the tenant connected to the number  *)
(* in message.chatid.                                                      *)
TenantByOwnerOrElseChat(body) ==
    LET origin == detectPayloadOrigin(body)
    IN IF Len(integrations) = 1 THEN 1
       ELSE IF origin \in {"zapi", "wuzapi"}
       THEN IF Cardinality(TenantsOf(origin)) = 1 THEN First(TenantsOf(origin)) ELSE 0
       ELSE IF origin = "uazapi"
       THEN IF Truthy(DigitsOnly(OwnerOf(body)))
            THEN First(ConnectedTo(DigitsOnly(OwnerOf(body))))
            ELSE First(ConnectedTo(ChatDigits(body)))
       ELSE 0

(* The same, with message.chatid consulted whenever the owner's number     *)
(* selects no tenant.                                                      *)
TenantByOwnerThenChat(body) ==
    LET origin == detectPayloadOrigin(body)
        byOwner == First(ConnectedTo(DigitsOnly(OwnerOf(body))))
    IN IF Len(integrations) > 1 /\ origin = "uazapi"
       THEN IF byOwner # 0 THEN byOwner ELSE First(ConnectedTo(ChatDigits(body)))
       ELSE TenantByOwnerOrElseChat(body)

(* The handler works for tenant k on the event it takes: it drops the      *)
(* event as unroutable when k is no tenant, and otherwise goes on under    *)
(* the configuration of tenant k.                                          *)
TakenFor(k) ==
    IF k = 0 THEN DroppedWith({"integration_not_found"})
    ELSE /\ pcP'.state = "idle" => resP'.reason # "integration_not_found"
         /\ pcP'.state = "post" => pcP'.int = k

IsMessageEvent(body) ==
    ~Has(body, "malformed") /\ ~isZapiNotificationEvent(body)

(* C22 (as the code has it): each message event is handled for at most one *)
(* tenant: the only tenant; else for Z-API and Wuzapi the only tenant of   *)
(* the dialect or none; for UAZAPI the tenant connected to the digits of   *)
(* owner or none, and message.chatid decides only when the event carries   *)
(* no owner digits; with no tenant the event is dropped with reason        *)
(* integration_not_found.                                                  *)
C22_OneTenantPerEvent ==
    [][(PrincipalTakes /\ IsMessageEvent(Head(qP))) =>
          TakenFor(TenantByOwnerOrElseChat(Head(qP)))]_vars

(* C22 as stated: for UAZAPI the tenant matching owner, else the one       *)
(* matching message.chatid.                                                *)
C22_OwnerElseChatid ==
    [][(PrincipalTakes /\ IsMessageEvent(Head(qP))) =>
          TakenFor(TenantByOwnerThenChat(Head(qP)))]_vars

(* A UAZAPI event whose owner is the number of no tenant and whose chat is *)
(* the number of one has been dropped.                                     *)
C22_Witness ==
    /\ Quiescent
    /\ Len(integrations) > 1
    /\ Len(provMessages) >= 1
    /\ LET last == provMessages[Len(provMessages)]
       IN /\ last.dialect = "uazapi"
          /\ Truthy(DigitsOnly(last.owner))
          /\ ConnectedTo(DigitsOnly(last.owner)) = {}
          /\ ConnectedTo(DigitsOnly(Replace(last.chat.wire, "@s.whatsapp.net"))) # {}
    /\ resP = Result(FALSE, "integration_not_found")
    /\ acks.pulledP = Len(provMessages)

(***************************************************************************)
(* Failure of the provider send in processWebhookCallback.                 *)
(***************************************************************************)
(* The step in which a provider request of the callback fails, and the     *)
(* credits the callback had put on the helpdesk echo map: one for each     *)
(* attachment, one for a message without attachments.                      *)
CallbackSendFails == pcC.state = "send" /\ pcC'.state = "idle" /\ resC'.reason = "error"

PreCredits == IF Len(pcC.parts) = 0 THEN 1 ELSE Len(pcC.parts)

(* The helpdesk echo map after the step is the map before it with n        *)
(* credits less for the recipient and kind of the callback.                *)
CreditsReleased(n) ==
    \A phone \in DOMAIN messageTicketsChatwoot \cup DOMAIN messageTicketsChatwoot',
       messageType \in MESSAGE_TYPES :
        TicketCount(messageTicketsChatwoot', phone, messageType) =
            TicketCount(messageTicketsChatwoot, phone, messageType)
            - (IF phone = pcC.recipient /\ messageType = pcC.messageType THEN n ELSE 0)

(* C23: when the provider send of a callback fails, every credit the       *)
(* callback put on the helpdesk echo map is taken back, one for each of    *)
(* its N attachments, no mapping is stored and the handler throws.  Stated *)
(* for a callback whose first request fails, so that no echo of an earlier *)
(* part can have taken a credit.                                           *)
C23_AllCreditsRolledBack ==
    [][(CallbackSendFails /\ pcC.sent = 0) =>
          /\ CreditsReleased(PreCredits)
          /\ messageIdCache' = messageIdCache
          /\ ~resC'.processed]_vars

(* What the handler does: it takes back one credit, however many it put.   *)
C23_OneCreditRolledBack ==
    [][CallbackSendFails =>
          /\ CreditsReleased(1)
          /\ messageIdCache' = messageIdCache
          /\ ~resC'.processed]_vars

(***************************************************************************)
(* Failure of the helpdesk post of a message the agent wrote on the phone. *)
(***************************************************************************)
(* The event at the head of the principal queue is a message event that is *)
(* routed, not ignored, with fromMe and without fromApi.                   *)
FromPhone(body) ==
    /\ IsMessageEvent(body)
    /\ RoutedTo(body) # 0
    /\ ~DataOf(body).ignored
    /\ DataOf(body).fromMe
    /\ ~DataOf(body).fromApi

(* The provider echo map after the step is the map before it with n more   *)
(* credits at (phone, messageType).                                        *)
ProviderCredits(phone, messageType, n) ==
    \A p \in DOMAIN messageTickets \cup DOMAIN messageTickets' \cup {phone}, t \in MESSAGE_TYPES :
        TicketCount(messageTickets', p, t) =
            TicketCount(messageTickets, p, t) + (IF p = phone /\ t = messageType THEN n ELSE 0)

OutgoingPostFails ==
    /\ pcP.state = "post"
    /\ pcP.dir = "outgoing"
    /\ ~pcP.data.fromApi
    /\ pcP'.state = "idle"
    /\ ~resP'.processed

(* C24: an event with fromMe and without fromApi credits the provider echo *)
(* map at (recipient, kind) before anything is posted; when the post fails *)
(* the handler throws and the credit, if it is still there, is taken off   *)
(* again, every other counter staying as it was: credit and release cancel *)
(* on a key that nothing else touched.                                     *)
C24_PreCreditReleasedOnFailure ==
    [][/\ (PrincipalTakes /\ FromPhone(Head(qP))) =>
             /\ ProviderCredits(DataOf(Head(qP)).phone, MediaType(DataOf(Head(qP))), 1)
             /\ pcP'.state = "post"
             /\ hdMessages' = hdMessages
       /\ OutgoingPostFails =>
             /\ resP'.reason = "error"
             /\ IF TicketCount(messageTickets, pcP.data.phone, pcP.messageType) > 0
                THEN ProviderCredits(pcP.data.phone, pcP.messageType, -1)
                ELSE ProviderCredits(pcP.data.phone, pcP.messageType, 0)]_vars

(* The agent wrote on the phone, the post failed at once and the provider  *)
(* echo map is empty as it was before the event.                           *)
C24_Witness ==
    /\ Len(provMessages) = 1
    /\ provMessages[1].via = "phone"
    /\ hdMessages = <<>>
    /\ acks.pulledP = 1
    /\ pcP.state = "idle"
    /\ resP = Thrown(0, "outgoing", "text")
    /\ messageTickets = EmptyMap

(***************************************************************************)
(* Media at a helpdesk that fails: a client sends one image, audio, video  *)
(* or document, and the helpdesk may fail every POST of the run.           *)
(***************************************************************************)
MaxMediaFaults == 4

MediaKinds == {"image", "audio", "video", "document"}

ClientSendsMedia ==
    /\ Quiescent
    /\ originsLeft > 0
    /\ originsLeft' = originsLeft - 1
    /\ \E chat \in ChatsOf(integrations[1].provider), media \in MediaKinds :
          /\ provMessages' = ProviderOriginated(chat, media, "client")
          /\ qP' = Append(qP, ProviderEvent(integrations[1].provider, chat, FALSE, FALSE, media,
                                            MsgId(Len(provMessages) + 1), null, null))
    /\ UNCHANGED <<integrations, messageTickets, messageTicketsChatwoot, messageIdCache, qC,
                   pcP, pcC, resP, resC, hdContacts, hdMessages, faultsLeft, lastOp>>
    /\ UNCHANGED <<provDeletes, acks, hdConversations, lookupFaults>>
    /\ UNCHANGED <<hdInboxes, dataFile>>
InitMedia ==
    \E p \in Providers :
        InitBase(<<Integration(1, p, FALSE, 7)>>,
                 SeqOfSet(KnownContacts(Integration(1, p, FALSE, 7))), 1, MaxMediaFaults, 0)

NextMedia ==
    \/ ClientSendsMedia
    \/ PrincipalReceive
    \/ PrincipalPost
    \/ CallbackReceive

SpecMedia == InitMedia /\ [][NextMedia]_vars

(* The steps of a media send: a POST of the media, and what follows it.    *)
MediaPost == pcP.state = "post" /\ pcP.kind \in MediaKinds /\ pcP.phase # "fallback"

Reattempted == MediaPost /\ pcP'.state = "post" /\ pcP'.attempt = pcP.attempt + 1

FallsBack == MediaPost /\ pcP'.state = "post" /\ pcP'.phase = "fallback"

FallbackFails == pcP.state = "post" /\ pcP.phase = "fallback" /\ pcP'.state = "idle"
                 /\ ~resP'.processed

(* C25: a media POST is made at most 3 times, and again only after a       *)
(* timeout, network error, 5xx or 429; a send that gives up on the media   *)
(* tries a text-only message, and when that fails too the error raised is  *)
(* that of the media POST.                                                 *)
C25_RetryOnlyRetryableRaiseOriginal ==
    [][/\ pcP'.attempt <= maxRetries
       /\ Reattempted => pcP'.error = "retry"
       /\ (MediaPost /\ pcP'.state = "idle") => resP'.processed \/ resP'.raised = "contact"
       /\ FallbackFails => resP'.raised = "media"]_vars

(* What the overloads do: at most 3 POSTs of an image, each failure of the *)
(* first two followed by another whatever the error, one POST of any other *)
(* media; a send that gives up on the media tries a text-only message; and *)
(* when that fails too, the image overload raises the error of its last    *)
(* media POST, the others the error of the text POST.                      *)
C25_ImageRetriedOnAnyError ==
    [][/\ pcP'.attempt <= maxRetries
       /\ Reattempted => pcP.kind = "image" /\ pcP'.error \in {"noid", "retry", "fatal"}
       /\ (MediaPost /\ pcP'.state = "idle") => resP'.processed \/ resP'.raised = "contact"
       /\ FallsBack => pcP'.error \in {"noid", "retry", "fatal"} /\ (pcP.kind = "image" => pcP.attempt = maxRetries)
       /\ FallbackFails => resP'.raised = (IF pcP.kind = "image" THEN "media" ELSE "text")]_vars

(***************************************************************************)
(* Callbacks.  The helpdesk reports more than the agent's messages: notes  *)
(* that are private, messages that came in through the inbox, updates of a *)
(* message, changes of a conversation.  Its contacts are those the bridge  *)
(* created and contacts made by hand: one with a phone number and no       *)
(* identifier, one with a phone number besides a lid identifier.           *)
(***************************************************************************)
HandMadeContacts ==
    <<[identifier |-> <<>>, phone_number |-> <<"+","5","5","9">>],
      [identifier |-> <<"8","@lid">>, phone_number |-> <<"+","5","5","9">>]>>

OtherCallbacks == {"private", "incoming", "message_updated", "conversation_status_changed"}

HelpdeskNotifies ==
    /\ Quiescent
    /\ originsLeft > 0
    /\ originsLeft' = originsLeft - 1
    /\ Len(hdMessages) < MaxChain
    /\ \E c \in 1..Len(hdContacts), attachments \in {<<>>, <<"image">>}, what \in OtherCallbacks :
          LET message == [id |-> Len(hdMessages) + 1,
                          message_type |-> IF what = "incoming" THEN "incoming" ELSE "outgoing",
                          attachments |-> attachments, contact |-> hdContacts[c],
                          conversation |-> c, inbox_id |-> integrations[1].inboxNumber,
                          by |-> "agent", content |-> <<"t">>, in_reply_to |-> null]
              body == CallbackBody(message)
          IN /\ hdMessages' = IF what \in {"private", "incoming"}
                              THEN Append(hdMessages, message) ELSE hdMessages
             /\ qC' = Append(qC, CASE what = "private" -> [body EXCEPT !.private = TRUE]
                                   [] what = "incoming" -> body
                                   [] OTHER -> [body EXCEPT !.event = what])
    /\ UNCHANGED <<integrations, messageTickets, messageTicketsChatwoot, messageIdCache, qP,
                   pcP, pcC, resP, resC, hdContacts, provMessages, faultsLeft, lastOp>>
    /\ UNCHANGED <<provDeletes, acks, hdConversations, lookupFaults>>
    /\ UNCHANGED <<hdInboxes, dataFile>>
InitCallback ==
    \E p \in Providers :
        InitBase(<<Integration(1, p, FALSE, 7)>>,
                 SeqOfSet(KnownContacts(Integration(1, p, FALSE, 7))) \o HandMadeContacts,
                 MaxOrigins, MaxFaults, 0)

NextCallback ==
    \/ AgentUiSends
    \/ HelpdeskNotifies
    \/ CallbackReceive
    \/ CallbackSend
    \/ PrincipalReceive
    \/ PrincipalPost

SpecCallback == InitCallback /\ [][NextCallback]_vars

(* The callback at the head of the queue reports a message the agent       *)
(* created for the client; it reports a deletion.                          *)
ForClient(body) ==
    body.event = "message_created" /\ body.message_type = "outgoing" /\ ~body.private

IsDeletion(body) == body.event = "message_updated" /\ body.deleted

NothingSent ==
    /\ pcC'.state = "idle"
    /\ ~resC'.processed
    /\ UNCHANGED <<messageTickets, messageTicketsChatwoot, messageIdCache, provMessages,
                   provDeletes, qP>>

(* C26: the callback handler goes on to the provider only for a callback   *)
(* with event message_created, message_type outgoing and not private; any  *)
(* other callback that is not a deletion is answered processed = false     *)
(* with no provider request and with both ledger maps and the mapping      *)
(* cache as they were.                                                     *)
C26_OnlyOutgoingPublicCreated ==
    [][/\ (CallbackTakes /\ pcC'.state = "send") => ForClient(Head(qC))
       /\ (CallbackTakes /\ ~Has(Head(qC), "malformed") /\ ~IsDeletion(Head(qC))
           /\ ~ForClient(Head(qC))) =>
             /\ NothingSent
             /\ resC'.reason \in {"event_not_message_created", "message_not_outgoing",
                                  "mensagem_privada"}]_vars

(* A private note has been dropped, and before it a message for the client *)
(* has been sent.                                                          *)
C26_Witness ==
    /\ Quiescent
    /\ resC = Result(FALSE, "mensagem_privada")
    /\ Len(hdMessages) = 2
    /\ hdMessages[1].by = "agent"
    /\ Len(provMessages) = 1
    /\ provMessages[1].via = "api"
    /\ acks.pulledC = 2

(* The recipient of a send, as a function of the helpdesk contact.         *)
FirstPresent(values) ==
    IF \E i \in 1..Len(values) : Truthy(values[i])
    THEN values[CHOOSE i \in 1..Len(values) :
                    Truthy(values[i]) /\ \A j \in 1..(i - 1) : ~Truthy(values[j])]
    ELSE null

ResolvedFrom(contact) ==
    LET identifier == contact.identifier
    IN IF EndsWith(identifier, "@g.us") \/ EndsWith(identifier, "-group")
       THEN identifier
       ELSE FirstPresent(<<contact.phone_number,
                           IF EndsWith(identifier, "@lid") THEN identifier ELSE null,
                           IF EndsWith(identifier, "@s.whatsapp.net") THEN identifier ELSE null,
                           identifier>>)

(* The handler treats the callback as one for recipient r: it goes on to   *)
(* send to r, or it takes a provider echo credit of r and stops.           *)
HandledFor(r) ==
    \/ pcC'.state = "send" /\ pcC'.recipient = r
    \/ /\ pcC'.state = "idle"
       /\ resC'.reason = "ticket_consumed"
       /\ r \in DOMAIN messageTickets

(* C27: group identifiers are used verbatim; a direct contact resolves to  *)
(* the first present of phone_number, lid identifier, jid identifier, raw  *)
(* identifier, so that a contact with a phone_number resolves to it also   *)
(* when its identifier is empty.                                           *)
C27_RecipientFromContact ==
    [][(CallbackTakes /\ ForClient(Head(qC))
        /\ Truthy(ResolvedFrom(Head(qC).conversation.sender))) =>
          HandledFor(ResolvedFrom(Head(qC).conversation.sender))]_vars

(* The same for contacts that have an identifier; a contact without one is *)
(* dropped whatever else it has.                                           *)
C27_RecipientWhenIdentified ==
    [][(CallbackTakes /\ ForClient(Head(qC))) =>
          IF Truthy(Head(qC).conversation.sender.identifier)
          THEN HandledFor(ResolvedFrom(Head(qC).conversation.sender))
          ELSE NothingSent /\ resC'.reason = "contact_identifier_not_found"]_vars

(***************************************************************************)
(* Replies.  A client of a Z-API or UAZAPI tenant answers a message of the *)
(* chat with a text, an image, an audio, a video or a document.            *)
(***************************************************************************)
ClientReplies ==
    /\ Quiescent
    /\ originsLeft > 0
    /\ originsLeft' = originsLeft - 1
    /\ \E chat \in ChatsOf(integrations[1].provider), media \in {"none"} \cup MediaKinds :
       \E replyTo \in {provMessages[m].id : m \in InChat(chat)} :
          LET new == MsgId(Len(provMessages) + 1)
              event == ProviderEvent(integrations[1].provider, chat, FALSE, FALSE, media, new,
                                     null, null)
          IN /\ provMessages' = Append(provMessages, [id |-> new, chat |-> chat, media |-> media,
                                                      via |-> "client", replyTo |-> replyTo])
             /\ qP' = Append(qP, WithReply(integrations[1].provider, event, replyTo))
    /\ UNCHANGED <<integrations, messageTickets, messageTicketsChatwoot, messageIdCache, qC,
                   pcP, pcC, resP, resC, hdContacts, hdMessages, provDeletes, faultsLeft,
                   lastOp, acks, hdConversations, lookupFaults>>
    /\ UNCHANGED <<hdInboxes, dataFile>>

InitReply ==
    \E p \in {"zapi", "uazapi"} :
        LET int == Integration(1, p, FALSE, 7)
        IN InitBase(<<int>>, SeqOfSet(KnownContacts(int)), MaxOrigins, 1, 0)

NextReply ==
    \/ ClientSends
    \/ ClientReplies
    \/ PrincipalReceive
    \/ PrincipalPost
    \/ CallbackReceive

SpecReply == InitReply /\ [][NextReply]_vars

(* A step of the post that creates a helpdesk message while the handler    *)
(* holds the helpdesk id of the message replied to.                        *)
ReplyPosted ==
    /\ pcP.state = "post"
    /\ Truthy(pcP.replyId)
    /\ Len(hdMessages') = Len(hdMessages) + 1

(* C28: whatever the overload - text, image, audio, video, document - a    *)
(* message created with a replyId carries in_reply_to equal to it.         *)
C28_EveryOverloadCarriesReply ==
    [][ReplyPosted => hdMessages'[Len(hdMessages')].in_reply_to = pcP.replyId]_vars

(* Only the text overload, called for a text, carries it; the media        *)
(* overloads and the text message they fall back to carry none.            *)
C28_OnlyTextCarriesReply ==
    [][ReplyPosted =>
          hdMessages'[Len(hdMessages')].in_reply_to =
             IF pcP.kind = "text" /\ pcP.phase # "fallback" THEN pcP.replyId ELSE null]_vars

C28_TextReplyPosted ==
    /\ Quiescent
    /\ Len(hdMessages) = 2
    /\ hdMessages[2].in_reply_to = <<"1">>

(***************************************************************************)
(* Sends.  The agent writes one message in the helpdesk UI: a text, or up  *)
(* to three attachments with or without a text; the provider may fail a    *)
(* request.                                                                *)
(***************************************************************************)
MaxAttachments == 3

AttachmentLists ==
    UNION {[1..n -> {"image", "file", "audio"}] : n \in 0..MaxAttachments}

AgentUiAttaches ==
    /\ Quiescent
    /\ originsLeft > 0
    /\ originsLeft' = originsLeft - 1
    /\ Len(hdMessages) < MaxChain
    /\ \E c \in 1..Len(hdContacts), attachments \in AttachmentLists, content \in {<<>>, <<"t">>} :
          LET message == [id |-> Len(hdMessages) + 1, message_type |-> "outgoing",
                          attachments |-> attachments, contact |-> hdContacts[c],
                          conversation |-> c, inbox_id |-> integrations[1].inboxNumber,
                          by |-> "agent", content |-> content, in_reply_to |-> null]
          IN /\ attachments # <<>> \/ content # <<>>
             /\ hdMessages' = Append(hdMessages, message)
             /\ qC' = Append(qC, CallbackBody(message))
    /\ UNCHANGED <<integrations, messageTickets, messageTicketsChatwoot, messageIdCache, qP,
                   pcP, pcC, resP, resC, hdContacts, provMessages, faultsLeft, lastOp>>
    /\ UNCHANGED <<provDeletes, acks, hdConversations, lookupFaults>>
    /\ UNCHANGED <<hdInboxes, dataFile>>
InitSend ==
    \E p \in Providers :
        InitBase(<<Integration(1, p, FALSE, 7)>>,
                 SeqOfSet(KnownContacts(Integration(1, p, FALSE, 7))), 1, 1, 0)

NextSend ==
    \/ AgentUiAttaches
    \/ CallbackReceive
    \/ CallbackSend
    \/ PrincipalReceive
    \/ PrincipalPost

SpecSend == InitSend /\ [][NextSend]_vars

(* One request of WhatsAppService.sendMessage, and its outcome.            *)
SendRequest == pcC.state = "send" /\ pcC' # pcC

RequestAnswered == Len(provMessages') = Len(provMessages) + 1

Requested == provMessages'[Len(provMessages')]

(* C29: without attachments the call is one text request; with N           *)
(* attachments request k is issued for attachment k once request k - 1 has *)
(* returned, the first alone carries the text, and a failing request ends  *)
(* the call with an error before any later request.                        *)
C29_RequestsInOrderStopAtFailure ==
    [][SendRequest =>
          LET N == Len(pcC.parts)
              k == pcC.sent + 1
          IN /\ k <= (IF N = 0 THEN 1 ELSE N)
             /\ IF RequestAnswered
                THEN /\ Requested.via = "api"
                     /\ Requested.media = (IF N = 0 THEN "none" ELSE pcC.parts[k])
                     /\ Requested.text = (IF N = 0 \/ k = 1 THEN pcC.content ELSE <<>>)
                     /\ IF k < N
                        THEN pcC' = [pcC EXCEPT !.sent = k, !.firstId = pcC'.firstId]
                        ELSE pcC'.state = "idle" /\ resC'.processed
                ELSE /\ pcC'.state = "idle"
                     /\ ~resC'.processed
                     /\ resC'.reason = "error"
                     /\ UNCHANGED provMessages]_vars

(* Three attachments with a text have been sent: three requests in the     *)
(* order of the list, the text on the first.                               *)
C29_Witness ==
    /\ pcC.state = "idle"
    /\ resC.processed
    /\ Len(hdMessages) >= 1
    /\ hdMessages[1].attachments = <<"image", "file", "audio">>
    /\ Len(provMessages) = 3
    /\ <<provMessages[1].media, provMessages[2].media, provMessages[3].media>>
          = <<"image", "document", "audio">>
    /\ <<provMessages[1].text, provMessages[2].text, provMessages[3].text>>
          = <<<<"t">>, <<>>, <<>>>>

(* The second of three requests failed: one request was answered, the      *)
(* third was never issued.                                                 *)
C29_StoppedAtFailure ==
    /\ pcC.state = "idle"
    /\ resC = Result(FALSE, "error")
    /\ Len(hdMessages) >= 1
    /\ Len(hdMessages[1].attachments) = 3
    /\ Len(provMessages) = 1
    /\ faultsLeft = 0

(***************************************************************************)
(* ChatwootService.ensureInbox (services/chatwoot.js).  An inbox is an id  *)
(* and a name; the data file of a tenant holds the id of the inbox it      *)
(* adopted.  A run makes up to four requests - the inbox of the stored id, *)
(* the list of inboxes when the name of that inbox differs, the list of    *)
(* inboxes again, the creation - and fails is the set of those the         *)
(* helpdesk does not answer.                                               *)
(***************************************************************************)
toLowerCase(name) ==
    [i \in 1..Len(name) |-> CASE name[i] = "W" -> "w"
                              [] name[i] = "S" -> "s"
                              [] OTHER -> name[i]]

NoInbox == [id |-> 0, name |-> <<>>]

getInboxById(inboxes, id) ==
    IF \E i \in 1..Len(inboxes) : inboxes[i].id = id
    THEN inboxes[CHOOSE i \in 1..Len(inboxes) : inboxes[i].id = id]
    ELSE NoInbox

findInboxByName(inboxes, name) ==
    LET hit(i) == toLowerCase(inboxes[i].name) = toLowerCase(name)
    IN IF \E i \in 1..Len(inboxes) : hit(i)
       THEN inboxes[CHOOSE i \in 1..Len(inboxes) : hit(i) /\ \A j \in 1..(i - 1) : ~hit(j)]
       ELSE NoInbox

createApiInbox(inboxes, name) ==
    [id |-> Len(inboxes) + 1, name |-> name]

InboxRequests == {"getInboxById", "findInboxByName1", "findInboxByName2", "createApiInbox"}

ensureInbox(storedId, inboxes, name, fails) ==
    LET inbox == getInboxById(inboxes, storedId)
        existing == findInboxByName(inboxes, name)
        created == createApiInbox(inboxes, name)
        return(id, file, list, asked) ==
            [id |-> id, file |-> file, inboxes |-> list, asked |-> asked]
        create(asked) ==
            IF "createApiInbox" \in fails
            THEN return(0, storedId, inboxes, asked \cup {"createApiInbox"})
            ELSE return(created.id, created.id, Append(inboxes, created),
                        asked \cup {"createApiInbox"})
        byName(asked) ==
            IF "findInboxByName2" \notin fails /\ existing.id # 0
            THEN return(existing.id, existing.id, inboxes, asked \cup {"findInboxByName2"})
            ELSE create(asked \cup {"findInboxByName2"})
    IN IF storedId = 0 THEN byName({})
       ELSE IF "getInboxById" \in fails \/ inbox.id = 0 THEN byName({"getInboxById"})
       ELSE IF inbox.name # name
       THEN IF "findInboxByName1" \notin fails /\ existing.id # 0
            THEN return(existing.id, existing.id, inboxes, {"getInboxById", "findInboxByName1"})
            ELSE byName({"getInboxById", "findInboxByName1"})
       ELSE return(inbox.id, storedId, inboxes, {"getInboxById"})

(* The process starts and a tenant's service runs ensureInbox.             *)
EnsureInbox ==
    /\ Quiescent
    /\ originsLeft > 0
    /\ originsLeft' = originsLeft - 1
    /\ \E i \in 1..Len(integrations), fails \in SUBSET InboxRequests :
          LET run == ensureInbox(dataFile[i], hdInboxes, inboxName(integrations[i]), fails)
          IN /\ fails \subseteq run.asked
             /\ Cardinality(fails) <= faultsLeft
             /\ faultsLeft' = faultsLeft - Cardinality(fails)
             /\ hdInboxes' = run.inboxes
             /\ dataFile' = [dataFile EXCEPT ![i] = run.file]
             /\ integrations' =
                   IF run.id = 0 THEN integrations
                   ELSE [integrations EXCEPT ![i].inboxId = String(run.id),
                                             ![i].inboxNumber = run.id]
    /\ UNCHANGED <<messageTickets, messageTicketsChatwoot, messageIdCache, qP, qC, pcP, pcC,
                   resP, resC, hdContacts, hdMessages, provMessages, provDeletes, lastOp,
                   acks, hdConversations, lookupFaults>>

MaxRestarts == 3

MaxInboxFaults == 2

MaxInboxes == 2

HelpdeskNames == {<<"W", "o", "1">>, <<"w", "o", "1">>, <<"S", "u">>}

InboxLists ==
    UNION {{[i \in 1..n |-> [id |-> i, name |-> names[i]]] : names \in [1..n -> HelpdeskNames]} :
           n \in 0..MaxInboxes}

(* Before the first start: the tenant has no inbox id; the helpdesk has    *)
(* any inboxes, the data file is missing or holds any id.                  *)
InitInbox ==
    \E inboxes \in InboxLists, storedId \in 0..(MaxInboxes + 1) :
        /\ InitBridge(<<[Integration(1, "zapi", FALSE, 0) EXCEPT !.inboxId = null]>>, <<>>,
                      MaxRestarts, MaxInboxFaults, 0)
        /\ hdInboxes = inboxes
        /\ dataFile = <<storedId>>

NextInbox ==
    \/ EnsureInbox

SpecInbox == InitInbox /\ [][NextInbox]_vars

(* A run of ensureInbox; a run after one that succeeded; a run that        *)
(* created an inbox.                                                       *)
InboxRun == originsLeft' = originsLeft - 1

Adopted == integrations[1].inboxNumber

InboxCreated == Len(hdInboxes') > Len(hdInboxes)

StoredIdMatches == getInboxById(hdInboxes, dataFile[1]).name = inboxName(integrations[1])

NameMatches == findInboxByName(hdInboxes, inboxName(integrations[1])).id # 0

SameInboxAgain ==
    /\ integrations'[1].inboxNumber = Adopted
    /\ hdInboxes' = hdInboxes
    /\ dataFile'[1] = Adopted

(* C30: once a run has adopted an inbox, a later run adopts the same id,   *)
(* creates no inbox and leaves that id in the data file; a run creates an  *)
(* inbox only when neither the stored id with the configured name nor a    *)
(* case-insensitive name match exists.                                     *)
C30_EnsureInboxIdempotent ==
    [][InboxRun => /\ Adopted # 0 => SameInboxAgain
                   /\ InboxCreated => ~StoredIdMatches /\ ~NameMatches]_vars

(* The same for runs in which the helpdesk answers every request.          *)
C30_IdempotentWhenAnswered ==
    [][(InboxRun /\ faultsLeft' = faultsLeft) =>
          /\ Adopted # 0 => SameInboxAgain
          /\ InboxCreated => ~StoredIdMatches /\ ~NameMatches]_vars

(* Three runs, each answered: the first created the inbox, the others      *)
(* adopted it from the data file.                                          *)
C30_AdoptedAgain ==
    /\ originsLeft = 0
    /\ faultsLeft = MaxInboxFaults
    /\ Len(hdInboxes) = 2
    /\ toLowerCase(hdInboxes[1].name) # toLowerCase(inboxName(integrations[1]))
    /\ Adopted = 2
    /\ dataFile = <<2>>

(***************************************************************************)
(* The registry (loadIntegrations).  The environment of a tenant is the    *)
(* set of keys getEnvValue finds a value for, with or without the tenant's *)
(* suffix; tenants are loaded in the order of their ids.                   *)
(***************************************************************************)
ChatwootKeys ==
    {"CHATWOOT_BASE_URL", "CHATWOOT_API_TOKEN", "CHATWOOT_ACCOUNT_ID", "CHATWOOT_INBOX_NAME"}

UazapiKeys == {"UAZAPI_TOKEN", "UAZAPI_BASE_URL", "UAZAPI_WHATSAPP"}

ZapiKeys == {"ZAPI_INSTANCIA", "ZAPI_TOKEN_INSTANCIA", "ZAPI_CLIENT_TOKEN"}

WuzapiKeys == {"WUZAPI_BASE_URL", "WUZAPI_TOKEN"}

(* TRUE when the configuration is returned, FALSE when the function throws. *)
buildChatwootConfig(keys) == ChatwootKeys \subseteq keys

(* The provider of the configuration returned, "" when the function throws. *)
buildWhatsAppConfig(keys) ==
    IF UazapiKeys \subseteq keys THEN "uazapi"
    ELSE IF ZapiKeys \subseteq keys THEN "zapi"
    ELSE IF WuzapiKeys \subseteq keys THEN "wuzapi"
    ELSE ""

NothingLoaded(inboxes, files) ==
    [integrations |-> <<>>, errors |-> <<>>, inboxes |-> inboxes, files |-> files, failed |-> 0]

(* One pass of the loop over the tenants, from tenant i on; fails[i] is    *)
(* the set of inbox requests the helpdesk does not answer tenant i.        *)
RECURSIVE LoadFrom(_, _, _, _)
LoadFrom(i, env, fails, acc) ==
    IF i > Len(env) THEN acc
    ELSE LET provider == buildWhatsAppConfig(env[i].whatsapp)
             id == i
             run == ensureInbox(acc.files[i], acc.inboxes, <<"W", "o">> \o String(id), fails[i])
             error(why) == [acc EXCEPT !.errors = Append(@, [id |-> id, error |-> why])]
         IN IF ~buildChatwootConfig(env[i].chatwoot)
            THEN LoadFrom(i + 1, env, fails, error("chatwoot"))
            ELSE IF provider = ""
            THEN LoadFrom(i + 1, env, fails, error("whatsapp"))
            ELSE IF run.id = 0
            THEN LoadFrom(i + 1, env, fails,
                          [error("inbox") EXCEPT !.failed = @ + Cardinality(fails[i])])
            ELSE LoadFrom(i + 1, env, fails,
                          [integrations |-> Append(acc.integrations,
                                                   Integration(id, provider, TRUE, run.id)),
                           errors |-> acc.errors,
                           inboxes |-> run.inboxes,
                           files |-> [acc.files EXCEPT ![i] = run.file],
                           failed |-> acc.failed + Cardinality(fails[i])])

(* The same loop leaving at the first tenant that fails.                   *)
RECURSIVE LoadFrom_UntilError(_, _, _, _)
LoadFrom_UntilError(i, env, fails, acc) ==
    IF i > Len(env) THEN acc
    ELSE LET provider == buildWhatsAppConfig(env[i].whatsapp)
             id == i
             run == ensureInbox(acc.files[i], acc.inboxes, <<"W", "o">> \o String(id), fails[i])
             error(why) == [acc EXCEPT !.errors = Append(@, [id |-> id, error |-> why])]
         IN IF ~buildChatwootConfig(env[i].chatwoot) THEN error("chatwoot")
            ELSE IF provider = "" THEN error("whatsapp")
            ELSE IF run.id = 0
            THEN [error("inbox") EXCEPT !.failed = @ + Cardinality(fails[i])]
            ELSE LoadFrom_UntilError(i + 1, env, fails,
                          [integrations |-> Append(acc.integrations,
                                                   Integration(id, provider, TRUE, run.id)),
                           errors |-> acc.errors,
                           inboxes |-> run.inboxes,
                           files |-> [acc.files EXCEPT ![i] = run.file],
                           failed |-> acc.failed + Cardinality(fails[i])])

loadIntegrations_StopsAtError(env, inboxes, files, fails) ==
    LoadFrom_UntilError(1, env, fails, NothingLoaded(inboxes, files))

loadIntegrations(env, inboxes, files, fails) ==
    LoadFrom(1, env, fails, NothingLoaded(inboxes, files))

MaxTenants == 2

TenantEnvs ==
    [chatwoot : {ChatwootKeys, ChatwootKeys \ {"CHATWOOT_INBOX_NAME"}, {}},
     whatsapp : {UazapiKeys, ZapiKeys, WuzapiKeys, UazapiKeys \cup ZapiKeys \cup WuzapiKeys,
                 (UazapiKeys \ {"UAZAPI_WHATSAPP"}) \cup WuzapiKeys, {"ZAPI_INSTANCIA"}}]

Envs == UNION {[1..n -> TenantEnvs] : n \in 1..MaxTenants}

InboxFailures == {{}, {"findInboxByName2"}, {"createApiInbox"},
                  {"findInboxByName2", "createApiInbox"}, {"getInboxById"}}

(* The process starts: loadIntegrations runs once, and throws when no      *)
(* tenant was loaded.                                                      *)
LoadIntegrations ==
    /\ integrations = <<>>
    /\ originsLeft > 0
    /\ originsLeft' = originsLeft - 1
    /\ \E env \in Envs :
       \E fails \in [1..Len(env) -> InboxFailures] :
          LET loaded == loadIntegrations(env, hdInboxes, dataFile, fails)
          IN /\ \A i \in 1..Len(env) :
                   /\ fails[i] # {} => buildChatwootConfig(env[i].chatwoot)
                                       /\ buildWhatsAppConfig(env[i].whatsapp) # ""
                   /\ fails[i] \subseteq
                         ensureInbox(dataFile[i], hdInboxes, <<"W", "o">> \o String(i),
                                     fails[i]).asked
             /\ loaded.failed <= faultsLeft
             /\ faultsLeft' = faultsLeft - loaded.failed
             /\ integrations' = loaded.integrations
             /\ hdInboxes' = loaded.inboxes
             /\ dataFile' = loaded.files
             /\ lastOp' = [op |-> "loadIntegrations", env |-> env, errors |-> loaded.errors,
                           threw |-> loaded.integrations = <<>>]
    /\ UNCHANGED <<messageTickets, messageTicketsChatwoot, messageIdCache, qP, qC, pcP, pcC,
                   resP, resC, hdContacts, hdMessages, provMessages, provDeletes,
                   acks, hdConversations, lookupFaults>>

(* Before the registry is loaded: no tenant; the helpdesk has no inbox or  *)
(* the inbox of tenant 1, whose data file may hold its id.                 *)
InitLoad ==
    \E inboxes \in {<<>>, <<[id |-> 1, name |-> <<"W", "o", "1">>]>>, <<[id |-> 1, name |-> <<"S", "u">>]>>},
       stored \in 0..1 :
        /\ InitBridge(<<>>, <<>>, 1, MaxInboxFaults, 0)
        /\ hdInboxes = inboxes
        /\ dataFile = [i \in 1..MaxTenants |-> IF i = 1 THEN stored ELSE 0]

NextLoad ==
    \/ LoadIntegrations

SpecLoad == InitLoad /\ [][NextLoad]_vars

Loads == integrations = <<>> /\ originsLeft' = originsLeft - 1

Buildable(tenant) ==
    buildChatwootConfig(tenant.chatwoot) /\ buildWhatsAppConfig(tenant.whatsapp) # ""

IdsOf(records) == {records[k].id : k \in 1..Len(records)}

(* C31: every tenant is either loaded or recorded as failed, a tenant that *)
(* cannot be built is recorded and the tenants after it are still loaded,  *)
(* the call throws exactly when none was loaded, and every tenant returned *)
(* has the provider of its recipe and the id of an inbox of the helpdesk   *)
(* that its data file holds.                                               *)
C31_LoadIsTolerant ==
    [][Loads =>
          LET env == lastOp'.env
              loaded == integrations'
          IN /\ IdsOf(loaded) \cup IdsOf(lastOp'.errors) = 1..Len(env)
             /\ IdsOf(loaded) \cap IdsOf(lastOp'.errors) = {}
             /\ \A i \in 1..Len(env) : ~Buildable(env[i]) => i \in IdsOf(lastOp'.errors)
             /\ faultsLeft' = faultsLeft =>
                   \A i \in 1..Len(env) : Buildable(env[i]) => i \in IdsOf(loaded)
             /\ lastOp'.threw <=> loaded = <<>>
             /\ \A k \in 1..Len(loaded) :
                   /\ \A j \in 1..Len(loaded) : loaded[j].id = loaded[k].id => j = k
                   /\ loaded[k].provider \in Providers
                   /\ loaded[k].provider = buildWhatsAppConfig(env[loaded[k].id].whatsapp)
                   /\ loaded[k].inboxNumber # 0
                   /\ getInboxById(hdInboxes', loaded[k].inboxNumber).id = loaded[k].inboxNumber
                   /\ dataFile'[loaded[k].id] = loaded[k].inboxNumber]_vars

(* The first tenant has no inbox name, the second is loaded.               *)
C31_Witness ==
    /\ lastOp.op = "loadIntegrations"
    /\ Len(lastOp.env) = 2
    /\ ~buildChatwootConfig(lastOp.env[1].chatwoot)
    /\ IdsOf(lastOp.errors) = {1}
    /\ ~lastOp.threw
    /\ Len(integrations) = 1
    /\ integrations[1].id = 2
    /\ dataFile[2] = integrations[1].inboxNumber

(***************************************************************************)
(* Phone normalisation (utils/phone.js): normalizeToE164 is called with a  *)
(* number as a provider or a person writes it and with the tenant's        *)
(* default country.                                                        *)
(***************************************************************************)
MaxPhoneLen == 3

National == <<"1","1","9","9","9","9","9","8","8","8","8">>

American == <<"1","4","1","5","5","5","5","0","0","0","0">>

PhoneInputs ==
    {National, American, <<"+">> \o American, <<"0","0">> \o American,
     <<"5","5">> \o National, <<"2","1","9","8","8","8","8">>,
     <<"(","1","1",")","9","8">>}
    \cup UNION {[1..n -> {"0", "1", "5", "8", "+"}] : n \in 1..MaxPhoneLen}

DefaultCountries == {"BR", "US", "XX"}

CallNormalize ==
    /\ \E phone \in PhoneInputs, defaultCountry \in DefaultCountries :
          lastOp' = Op("normalizeToE164", phone, defaultCountry, null,
                       normalizeToE164(phone, defaultCountry))
    /\ UNCHANGED <<integrations, messageTickets, messageTicketsChatwoot, messageIdCache, qP, qC,
                   pcP, pcC, resP, resC, hdContacts, hdMessages, provMessages, provDeletes,
                   originsLeft, faultsLeft, acks, hdConversations, lookupFaults, hdInboxes,
                   dataFile>>

InitPhone == InitBase(<<Integration(1, "zapi", FALSE, 7)>>, <<>>, 0, 0, 0)

NextPhone ==
    \/ CallNormalize

SpecPhone == InitPhone /\ [][NextPhone]_vars

Normalized(phone, defaultCountry) ==
    lastOp.op = "normalizeToE164" /\ lastOp.key = phone /\ lastOp.kind = defaultCountry

HasInternationalPrefix(phone) ==
    StartsWith(phone, <<"+">>) \/ StartsWith(DigitsOnly(phone), <<"0","0">>)

(* C32: with default country BR, 11999998888 becomes +5511999998888,       *)
(* +14155550000 stays, 0014155550000 becomes +14155550000; a number        *)
(* without international prefix gets the code of the default country.      *)
C32_DefaultCodePrepended ==
    /\ Normalized(National, "BR") => lastOp.ret = <<"+","5","5">> \o National
    /\ Normalized(<<"+">> \o American, "BR") => lastOp.ret = <<"+">> \o American
    /\ Normalized(<<"0","0">> \o American, "BR") => lastOp.ret = <<"+">> \o American
    /\ (lastOp.op = "normalizeToE164" /\ lastOp.kind \in DOMAIN COUNTRY_CODES
        /\ ~HasInternationalPrefix(lastOp.key)) =>
          lastOp.ret = <<"+">> \o COUNTRY_CODES[lastOp.kind] \o DigitsOnly(lastOp.key)

(* The code of the default country is prepended only to digits that start  *)
(* with the code of no country of the table; digits that do are taken to   *)
(* carry their country code already.                                       *)
C32_KnownCodeTakenAsCountry ==
    (lastOp.op = "normalizeToE164" /\ ~HasInternationalPrefix(lastOp.key)) =>
       lastOp.ret =
          IF \E c \in DOMAIN COUNTRY_CODES : StartsWith(DigitsOnly(lastOp.key), COUNTRY_CODES[c])
          THEN <<"+">> \o DigitsOnly(lastOp.key)
          ELSE IF lastOp.kind \in DOMAIN COUNTRY_CODES
          THEN <<"+">> \o COUNTRY_CODES[lastOp.kind] \o DigitsOnly(lastOp.key)
          ELSE <<"+">> \o DigitsOnly(lastOp.key)

C32_NationalTakenAsAmerican ==
    /\ Normalized(National, "BR")
    /\ lastOp.ret = <<"+">> \o National

(***************************************************************************)
(* Provider notifications.  Clients write, and the provider reports what   *)
(* happens to messages: UAZAPI a deletion of up to MaxDeleted messages     *)
(* (known to the bridge or not) and other updates, Z-API a revoked message *)
(* and other notifications.                                                *)
(***************************************************************************)
MaxNotifyOrigins == 3

UazapiDeleted(messageIds) ==
    [EventType |-> "messages_update", type |-> "DeletedMessage", state |-> "Deleted",
     event |-> [Type |-> "Deleted", MessageIDs |-> messageIds]]

UazapiUpdates ==
    {[EventType |-> "messages_update", type |-> "ReadReceipt", state |-> "Read"],
     [EventType |-> "messages_update", type |-> "DeletedMessage", state |-> "Pending"],
     [EventType |-> "messages_update", type |-> "Other", state |-> "Delivered"]}

DeletableIds == {MsgId(0)} \cup {provMessages[k].id : k \in 1..Len(provMessages)}

UazapiNotifies ==
    /\ Quiescent
    /\ originsLeft > 0
    /\ originsLeft' = originsLeft - 1
    /\ integrations[1].provider = "uazapi"
    /\ \/ \E n \in 0..MaxDeleted : \E messageIds \in [1..n -> DeletableIds] :
             /\ \A a, b \in 1..n : messageIds[a] = messageIds[b] => a = b
             /\ qP' = Append(qP, UazapiDeleted(messageIds))
       \/ \E update \in UazapiUpdates : qP' = Append(qP, update)
    /\ UNCHANGED <<integrations, messageTickets, messageTicketsChatwoot, messageIdCache, qC,
                   pcP, pcC, resP, resC, hdContacts, hdMessages, provMessages, provDeletes,
                   faultsLeft, lastOp, acks, hdConversations, lookupFaults, hdInboxes, dataFile>>

InitNotify ==
    \E p \in {"zapi", "uazapi"} :
        LET int == Integration(1, p, FALSE, 7)
        IN InitBase(<<int>>, SeqOfSet(KnownContacts(int)), MaxNotifyOrigins, MaxFaults, 0)

NextNotify ==
    \/ ClientSends
    \/ UazapiNotifies
    \/ ProviderNotifies
    \/ PrincipalReceive
    \/ PrincipalPost
    \/ CallbackReceive

SpecNotify == InitNotify /\ [][NextNotify]_vars

(* The principal handler takes the event at the head of its queue.         *)
NotificationTaken(Test(_)) == pcP.state = "idle" /\ qP # <<>> /\ qP' = Tail(qP) /\ Test(Head(qP))

IsDeletion33(body) == isUazapiDeletedEvent(body) \/ isZapiRevokeEvent(body)

IsOtherNotice(body) ==
    /\ ~IsDeletion33(body)
    /\ \/ Has(body, "EventType") /\ body.EventType = "messages_update"
       \/ isZapiNotificationEvent(body)

IsSpecial(body) == IsDeletion33(body) \/ IsOtherNotice(body)

HelpdeskIdOf(apiMessageId) ==
    MessageOfKey(hdMessages,
                 getChatwootMessageMappingByApiId(messageIdCache, apiMessageId).chatwootMessageId)

NoRoutingNoLedger ==
    /\ pcP' = pcP
    /\ UNCHANGED <<messageTickets, messageTicketsChatwoot, hdContacts, hdConversations>>

(* Each id of a UAZAPI deletion on its own: a mapped id is deleted, with   *)
(* its mapping, unless the helpdesk failed its DELETE; an id that is not   *)
(* deleted keeps what it had; mappings of other messages stay.             *)
EachIdOnItsOwn(messageIds) ==
    LET mapped == {k \in 1..Len(messageIds) : HelpdeskIdOf(messageIds[k]) # 0}
        gone == {k \in mapped :
                    /\ hdMessages'[HelpdeskIdOf(messageIds[k])] =
                          DeletedMessage(hdMessages[HelpdeskIdOf(messageIds[k])])
                    /\ getChatwootMessageId(messageIdCache', messageIds[k]) = null}
        kept == {k \in 1..Len(messageIds) :
                    /\ getChatwootMessageId(messageIdCache', messageIds[k]) =
                          getChatwootMessageId(messageIdCache, messageIds[k])
                    /\ k \in mapped =>
                          hdMessages'[HelpdeskIdOf(messageIds[k])] =
                             hdMessages[HelpdeskIdOf(messageIds[k])]}
    IN /\ gone \cup kept = 1..Len(messageIds)
       /\ Cardinality(mapped \ gone) = faultsLeft - faultsLeft'
       /\ \A e \in 1..Len(messageIdCache) :
             (\A k \in 1..Len(messageIds) : messageIdCache[e].apiMessageId # messageIds[k]) =>
                \E f \in 1..Len(messageIdCache') : messageIdCache'[f] = messageIdCache[e]
       /\ Len(hdMessages') = Len(hdMessages)

(* C33: deletions and other notifications of the provider are answered     *)
(* before routing and normalisation and leave the ledger alone; the ids of *)
(* a UAZAPI deletion are handled one by one; other UAZAPI updates and      *)
(* other Z-API notifications cause no helpdesk request.                    *)
C33_ProviderNoticesShortCircuit ==
    [][/\ NotificationTaken(IsSpecial) => NoRoutingNoLedger
       /\ NotificationTaken(isUazapiDeletedEvent) =>
             EachIdOnItsOwn(Head(qP).event.MessageIDs)
       /\ NotificationTaken(IsOtherNotice) =>
             /\ ~resP'.processed
             /\ UNCHANGED <<hdMessages, messageIdCache, qC, faultsLeft>>]_vars

(* Of two messages deleted in one event the helpdesk failed the first      *)
(* DELETE: the second message is deleted, the first keeps its mapping.     *)
C33_Witness ==
    /\ integrations[1].provider = "uazapi"
    /\ resP.reason = "uazapi_deleted"
    /\ Len(resP.results) = 2
    /\ ~resP.results[1].deleted
    /\ resP.results[1].reason = "error"
    /\ resP.results[2].deleted
    /\ Len(messageIdCache) = 1
    /\ messageIdCache[1].apiMessageId = resP.results[1].apiMessageId
    /\ faultsLeft = 0

(***************************************************************************)
(* The two consumers side by side.  The agent writes from the phone and    *)
(* from the helpdesk UI at any moment, also while the principal consumer   *)
(* waits for the helpdesk's answer to a POST or the callback consumer for  *)
(* the provider's answer to a send.  Nothing fails.                        *)
(***************************************************************************)
MaxRaceOrigins == 2

AgentPhoneWrites ==
    /\ originsLeft > 0
    /\ originsLeft' = originsLeft - 1
    /\ Len(provMessages) < MaxChain
    /\ \E chat \in ChatsOf(integrations[1].provider), media \in {"none", "image"} :
          /\ provMessages' = ProviderOriginated(chat, media, "phone")
          /\ qP' = Append(qP, ProviderEvent(integrations[1].provider, chat, TRUE, FALSE, media,
                                            MsgId(Len(provMessages) + 1), null, null))
    /\ UNCHANGED <<integrations, messageTickets, messageTicketsChatwoot, messageIdCache, qC,
                   pcP, pcC, resP, resC, hdContacts, hdMessages, faultsLeft, lastOp,
                   provDeletes, acks, hdConversations, lookupFaults, hdInboxes, dataFile>>

AgentUiWrites ==
    /\ originsLeft > 0
    /\ originsLeft' = originsLeft - 1
    /\ Len(hdMessages) < MaxChain
    /\ \E c \in 1..Len(hdContacts), attachments \in {<<>>, <<"image">>} :
          LET message == [id |-> Len(hdMessages) + 1, message_type |-> "outgoing",
                          attachments |-> attachments, contact |-> hdContacts[c],
                          conversation |-> c, inbox_id |-> integrations[1].inboxNumber,
                          by |-> "agent", content |-> <<"t">>, in_reply_to |-> null]
          IN /\ hdMessages' = Append(hdMessages, message)
             /\ qC' = Append(qC, CallbackBody(message))
    /\ UNCHANGED <<integrations, messageTickets, messageTicketsChatwoot, messageIdCache, qP,
                   pcP, pcC, resP, resC, hdContacts, provMessages, faultsLeft, lastOp,
                   provDeletes, acks, hdConversations, lookupFaults, hdInboxes, dataFile>>

InitRace ==
    \E p \in {"zapi", "uazapi"} :
        LET int == Integration(1, p, FALSE, 7)
        IN InitBase(<<int>>, SeqOfSet(KnownContacts(int)), MaxRaceOrigins, 0, 0)

NextRace ==
    \/ AgentPhoneWrites
    \/ AgentUiWrites
    \/ PrincipalReceive
    \/ PrincipalPost
    \/ CallbackReceive
    \/ CallbackSend

SpecRace == InitRace /\ [][NextRace]_vars

(* The callback consumer takes the message_created callback of a message   *)
(* the agent typed in the helpdesk UI.                                     *)
UiCallbackTaken ==
    /\ pcC.state = "idle"
    /\ qC # <<>>
    /\ qC' = Tail(qC)
    /\ Head(qC).event = "message_created"
    /\ hdMessages[Head(qC).id].by = "agent"

(* A request to the provider is answered for the callback in hand.         *)
ProviderSend == pcC.state = "send" /\ Len(provMessages') > Len(provMessages) /\ pcC' # pcC

Suppressed == resC'.reason = "ticket_consumed" /\ pcC'.state = "idle"

(* C34: the callback of a message typed in the agent UI is never answered  *)
(* ticket_consumed, it is sent to the provider; and no message that came   *)
(* from the phone is sent to the provider.                                 *)
C34_CreditsAreNotCrossed ==
    [][/\ UiCallbackTaken => (~Suppressed /\ pcC'.state = "send")
       /\ ProviderSend => hdMessages[pcC.body].by = "agent"]_vars

(* What the code does: a callback is suppressed exactly when the provider  *)
(* echo map holds a credit for its recipient and kind, whoever added it.   *)
C34_SuppressedByAnyCredit ==
    [][UiCallbackTaken =>
          LET contact == Head(qC).conversation.sender
              recipient == Recipient(contact)
              messageType == getMessageType(Head(qC).attachments)
          IN Suppressed <=> TicketCount(messageTickets, recipient, messageType) > 0]_vars

(* The agent wrote to the same recipient from the phone and from the UI:   *)
(* the UI message was suppressed and the phone's message was sent to the   *)
(* provider a second time.                                                 *)
C34_CrossedCredit ==
    /\ Quiescent
    /\ Len(hdMessages) = 2
    /\ Len(provMessages) = 2
    /\ \E a, b \in 1..2 :
          /\ hdMessages[a].by = "agent"
          /\ hdMessages[b].by = "bridge"
          /\ getChatwootMessageMappingByApiId(messageIdCache, provMessages[Len(provMessages)].id).chatwootMessageId = String(b)
          /\ \A e \in 1..Len(messageIdCache) : messageIdCache[e].key # String(a)
    /\ provMessages[1].via = "phone"
    /\ provMessages[2].via = "api"

(***************************************************************************)
(* Order of credit and request within one run of a handler.                *)
(***************************************************************************)
(* processWebhookPrincipal goes on to the helpdesk POST of an outgoing     *)
(* message; processWebhookCallback goes on to the provider send.           *)
OutgoingPostStarts == pcP.state = "idle" /\ pcP'.state = "post" /\ pcP'.dir = "outgoing"

SendStarts == pcC.state = "idle" /\ pcC'.state = "send"

(* The helpdesk creates an outgoing message for the bridge; the provider   *)
(* accepts a message from the bridge.                                      *)
OutgoingPosted ==
    /\ Len(hdMessages') > Len(hdMessages)
    /\ hdMessages'[Len(hdMessages')].by = "bridge"
    /\ hdMessages'[Len(hdMessages')].message_type = "outgoing"

ApiSent ==
    /\ Len(provMessages') > Len(provMessages)
    /\ provMessages'[Len(provMessages')].via = "api"

CreditsOf(parts) == IF Len(parts) > 0 THEN Len(parts) ELSE 1

(* C35: the step that adds the credit makes no request, and the request    *)
(* is made only by a run that has added its credit: the helpdesk POST of   *)
(* an outgoing message follows addOutgoingTicket, the provider send        *)
(* follows addOutgoingTicketChatwoot (one credit per request).             *)
C35_CreditBeforeRequest ==
    [][/\ OutgoingPostStarts =>
             /\ TicketCount(messageTickets', pcP'.data.phone, pcP'.messageType) =
                   TicketCount(messageTickets, pcP'.data.phone, pcP'.messageType) + 1
             /\ UNCHANGED <<hdMessages, qC>>
       /\ OutgoingPosted =>
             /\ pcP.state = "post" /\ pcP.dir = "outgoing" /\ pcP.rollback
             /\ qC' = Append(qC, CallbackBody(hdMessages'[Len(hdMessages')]))
       /\ SendStarts =>
             /\ TicketCount(messageTicketsChatwoot', pcC'.recipient, pcC'.messageType) =
                   TicketCount(messageTicketsChatwoot, pcC'.recipient, pcC'.messageType)
                      + CreditsOf(pcC'.parts)
             /\ UNCHANGED <<provMessages, qP>>
       /\ ApiSent =>
             /\ pcC.state = "send"
             /\ Len(qP') = Len(qP) + 1]_vars

(* Both requests are in flight, each with its credit added and neither     *)
(* answered yet.                                                           *)
C35_Witness ==
    /\ pcP.state = "post" /\ pcP.dir = "outgoing"
    /\ pcC.state = "send" /\ pcC.sent = 0
    /\ TicketCount(messageTickets, pcP.data.phone, pcP.messageType) = 1
    /\ TicketCount(messageTicketsChatwoot, pcC.recipient, pcC.messageType) = 1
    /\ \A k \in 1..Len(provMessages) : provMessages[k].via # "api"
    /\ \A m \in 1..Len(hdMessages) : hdMessages[m].by # "bridge"

(***************************************************************************)
(* The key and kind of the credit against those of the callback.           *)
(***************************************************************************)
(* The callback of the helpdesk message created from the agent's phone     *)
(* message waits at the head of the callback queue.                        *)
PhoneCallbackWaits ==
    /\ AgentPhoneFirst
    /\ ~OriginData.ignored
    /\ qC # <<>>
    /\ Head(qC).id = 1
    /\ hdMessages[1].by = "bridge"

CallbackKey == Recipient(Head(qC).conversation.sender)

CallbackKind == getMessageType(Head(qC).attachments)

(* C36: for every contact kind and dialect the key and kind under which    *)
(* processWebhookPrincipal credits a fromMe event are the recipient and    *)
(* kind processWebhookCallback computes for the callback of the message    *)
(* created from that event.                                                *)
C36_CreditKeyIsCallbackKey ==
    PhoneCallbackWaits =>
        /\ CallbackKey = OriginData.phone
        /\ CallbackKind = MediaType(OriginData)

(* What the code does: the keys agree whenever the event has a phone       *)
(* field, and the kinds always agree.                                      *)
C36_KeysAgreeWithPhone ==
    PhoneCallbackWaits =>
        /\ Truthy(OriginData.phone) => CallbackKey = OriginData.phone
        /\ CallbackKind = MediaType(OriginData)

(* A WUZAPI event of an @lid chat: the credit is under the absent phone,   *)
(* the callback asks under the handle.                                     *)
C36_HandleHasNoPhone ==
    /\ PhoneCallbackWaits
    /\ integrations[1].provider = "wuzapi"
    /\ OriginData.phone = null
    /\ EndsWith(CallbackKey, "@lid")
    /\ TicketCount(messageTickets, null, MediaType(OriginData)) = 1
    /\ TicketCount(messageTickets, CallbackKey, CallbackKind) = 0

(***************************************************************************)
(* The ledger after a round trip that began in the agent UI.               *)
(***************************************************************************)
UiRoundTripDone ==
    /\ Quiescent
    /\ Len(hdMessages) >= 1
    /\ hdMessages[1].by = "agent"
    /\ resP.reason # "error" /\ resC.reason # "error"
    /\ \E k \in 1..Len(provMessages) : provMessages[k].via = "api"

NoCreditIn(tickets) ==
    \A phone \in DOMAIN tickets : \A t \in DOMAIN tickets[phone] : tickets[phone][t] = 0

(* C37: when the send, its echo and its callback have all been processed   *)
(* without failure neither ledger map holds a credit, for every dialect    *)
(* and any number of attachments.                                          *)
C37_NoResidualCredit ==
    UiRoundTripDone => (NoCreditIn(messageTickets) /\ NoCreditIn(messageTicketsChatwoot))

(* What the code does: no credit remains in the dialects whose echo says   *)
(* it was sent through the API, and none in the provider echo map in any   *)
(* dialect.                                                                *)
C37_NoResidualWithApiFlag ==
    UiRoundTripDone =>
        /\ NoCreditIn(messageTickets)
        /\ integrations[1].provider # "wuzapi" => NoCreditIn(messageTicketsChatwoot)

(* A WUZAPI round trip is over and the helpdesk echo map still holds the   *)
(* credit of the send.                                                     *)
C37_WuzapiCreditStays ==
    /\ UiRoundTripDone
    /\ integrations[1].provider = "wuzapi"
    /\ resC.reason = "ticket_consumed"
    /\ NoCreditIn(messageTickets)
    /\ ~NoCreditIn(messageTicketsChatwoot)

(***************************************************************************)
(* Inbound events under each initial conversation status.  The helpdesk    *)
(* knows no contact at the start, no agent acts, no request fails.         *)
(***************************************************************************)
ConversationStatuses == {"open", "pending", "resolved"}

InitStatus ==
    \E p \in Providers, r \in BOOLEAN, s \in ConversationStatuses :
        LET int == [Integration(1, p, FALSE, 7) EXCEPT !.reabrirConversa = r,
                                                       !.conversationStatus = s]
        IN InitBase(<<int>>, <<>>, MaxOrigins, 0, 0)

NextStatus ==
    \/ ClientSends
    \/ PrincipalReceive
    \/ PrincipalPost
    \/ CallbackReceive

SpecStatus == InitStatus /\ [][NextStatus]_vars

(* The inbound event in hand is posted, its contact having a conversation  *)
(* in the tenant's inbox from an earlier event.                            *)
SecondInboundPosted ==
    /\ pcP.state = "post"
    /\ pcP.dir = "incoming"
    /\ Len(hdMessages') > Len(hdMessages)
    /\ PostContact # 0
    /\ ConversationsOf(PostContact, integrations[pcP.int].inboxNumber) # {}

IntoSameConversation ==
    /\ Len(hdConversations') = Len(hdConversations)
    /\ hdMessages'[Len(hdMessages')].conversation \in
          ConversationsOf(PostContact, integrations[pcP.int].inboxNumber)

(* C38: the second of two inbound events of a contact is posted into the   *)
(* conversation of the first and creates none, for every initial status    *)
(* and either value of reopenResolved.                                     *)
C38_SecondEventSameConversation ==
    [][SecondInboundPosted => IntoSameConversation]_vars

(* What the code does: the conversation of the first event is found again  *)
(* when it was created open, or created resolved with the reopen policy    *)
(* on; otherwise every event creates a conversation.                       *)
C38_SameWhenFoundAgain ==
    [][SecondInboundPosted =>
          LET int == integrations[pcP.int]
              found == \/ int.conversationStatus = "open"
                       \/ int.conversationStatus = "resolved" /\ int.reabrirConversa
          IN IF found THEN IntoSameConversation
             ELSE Len(hdConversations') = Len(hdConversations) + 1]_vars

(* Two events of one contact, initial status pending: two conversations.   *)
C38_PendingTwice ==
    /\ Quiescent
    /\ integrations[1].conversationStatus = "pending"
    /\ Len(hdContacts) = 1
    /\ Len(hdMessages) = 2
    /\ Len(hdConversations) = 2
    /\ hdMessages[1].conversation # hdMessages[2].conversation
    /\ \A c \in 1..2 : hdConversations[c] = Conversation(1, 7, "pending")

(***************************************************************************)
(* Callbacks of two tenants of one dialect, and callbacks that name an     *)
(* inbox no tenant has adopted.                                            *)
(***************************************************************************)
StrayInbox == 9

AgentUiSendsFrom ==
    /\ Quiescent
    /\ originsLeft > 0
    /\ originsLeft' = originsLeft - 1
    /\ \E c \in 1..Len(hdContacts), inbox \in {InboxOf(1), InboxOf(2), StrayInbox} :
          LET message == [id |-> Len(hdMessages) + 1, message_type |-> "outgoing",
                          attachments |-> <<>>, contact |-> hdContacts[c],
                          conversation |-> c, inbox_id |-> inbox,
                          by |-> "agent", content |-> <<"t">>, in_reply_to |-> null]
          IN /\ Len(hdMessages) < MaxChain
             /\ hdMessages' = Append(hdMessages, message)
             /\ qC' = Append(qC, CallbackBody(message))
    /\ UNCHANGED <<integrations, messageTickets, messageTicketsChatwoot, messageIdCache, qP,
                   pcP, pcC, resP, resC, hdContacts, provMessages, faultsLeft, lastOp,
                   provDeletes, acks, hdConversations, lookupFaults, hdInboxes, dataFile>>

InitTenant ==
    \E p \in Providers :
        InitState(<<Integration(1, p, FALSE, 7), Integration(2, p, FALSE, 8)>>, MaxOrigins, 0)

NextTenant ==
    \/ AgentUiSendsFrom
    \/ CallbackReceive
    \/ CallbackSend
    \/ PrincipalReceive

SpecTenant == InitTenant /\ [][NextTenant]_vars

(* The callback consumer takes a message_created callback whose inbox id   *)
(* is the adopted inbox of tenant t (0: of no tenant).                     *)
CreatedTakenFor(t) ==
    /\ CallbackTakes
    /\ Head(qC).event = "message_created"
    /\ findIntegrationByInboxId(integrations, Head(qC).conversation.inbox_id) = t

(* C39: a message_created callback is sent only through the provider      *)
(* client of the tenant whose adopted inbox is the callback's inbox; a     *)
(* callback whose inbox is no tenant's causes no send.                     *)
C39_CallbackTenantIsolation ==
    [][/\ SendStarts => InboxOf(pcC'.int) = pcC'.inbox_id
       /\ ApiSent => InboxOf(pcC.int) = pcC.inbox_id
       /\ CreatedTakenFor(0) => pcC'.state = "idle"]_vars

(* What the code does: the tenant of the inbox when there is one, else the *)
(* first tenant configured.                                                *)
C39_FirstTenantWhenUnmatched ==
    [][/\ \A t \in 1..Len(integrations) :
             (CreatedTakenFor(t) /\ SendStarts) => pcC'.int = t
       /\ (CreatedTakenFor(0) /\ SendStarts) => pcC'.int = 1
       /\ ApiSent => pcC'.int \in {0, pcC.int}]_vars

(* A callback of the stray inbox was sent through the first tenant's       *)
(* provider client and recorded under that tenant.                         *)
C39_StraySentByFirst ==
    /\ Quiescent
    /\ \E k \in 1..Len(provMessages) : provMessages[k].via = "api"
    /\ \E e \in 1..Len(messageIdCache) :
          /\ messageIdCache[e].inboxId = String(StrayInbox)
          /\ messageIdCache[e].integrationId = String(1)
=============================================================================
